---- MODULE Spec2Model ----
(***************************************************************************)
(* A model of the transform construction and execution subsystem of the    *)
(* moxcms colour management engine: the Layout type, the transform factory *)
(* (create_transform_8bit / _10bit / _12bit / _16bit), and the executors   *)
(* the factory and the conversions module hand out (Gray, RGB matrix, SSE  *)
(* Q4.12, CLUT 3->4 and CLUT 4->3).                                        *)
(*                                                                         *)
(* Six specifications:                                                     *)
(*   SpecFactory  one factory call per step, inputs drawn from every       *)
(*                (source profile, destination profile, layout, options).  *)
(*   Spec         calls of TransformExecutor::transform; the Gray and RGB  *)
(*                matrix executors advance one 672-sample strip per step.  *)
(*   SpecKernel   one per-pixel kernel step per behaviour: the Q4.12       *)
(*                multiply-add, the CLUT stores, the K-axis weights and    *)
(*                the double-table interpolants.                           *)
(*   SpecShared   two transform calls on one executor (&self) at the same  *)
(*                time, each loading and storing one strip per step.       *)
(*   SpecApi      a factory call, then a transform call on the executor    *)
(*                that call returned.                                      *)
(***************************************************************************)
EXTENDS Integers, Sequences, FiniteSets, TLC

VARIABLES
    fcall,        \* factory: the arguments of the last factory call
    fret,         \* factory: what that call returned
    pc,           \* executor call: "idle", "strips", "done"
    ex,           \* executor call: the compiled executor `self`
    src,          \* executor call: the source slice
    dst,          \* executor call: the destination slice
    dst0,         \* executor call: the destination slice as it was passed in
    wcount,       \* executor call: number of stores made to each dst element
    working_set,  \* executor call: the [f32; 672] scratch on the call stack
    strip,        \* executor call: number of full strips already processed
    ret,          \* executor call: the value transform returned
    kcall,        \* kernel: the inputs of the last per-pixel kernel step
    kret,         \* kernel: the values that step computed
    scall,        \* shared executor: the executor and buffers as passed
    shared_ex,    \* shared executor: the executor `&self` of both calls
    shared_src,   \* shared executor: the source slice `&[T]` of both calls
    tpc,          \* per call: "idle", "load", "store", "done"
    tchunk,       \* per call: number of chunks already stored
    tws,          \* per call: the [f32; 672] scratch on its stack
    tdst,         \* per call: its destination slice `&mut [T]`
    tret,         \* per call: the value transform returned
    overlap       \* some call loaded a strip between another's load and store

vars == <<fcall, fret, pc, ex, src, dst, dst0, wcount, working_set, strip, ret,
          kcall, kret, scall, shared_ex, shared_src, tpc, tchunk, tws, tdst,
          tret, overlap>>
fvars == <<fcall, fret>>
evars == <<pc, ex, src, dst, dst0, wcount, working_set, strip, ret>>
kvars == <<kcall, kret>>
svars == <<scall, shared_ex, shared_src, tpc, tchunk, tws, tdst, tret, overlap>>
\* What a factory call, an executor call, a kernel step and the calls on a
\* shared executor leave alone.
notFactoryVars == <<evars, kvars, svars>>
notExecVars == <<fvars, kvars, svars>>
notKernelVars == <<fvars, evars, svars>>
notSharedVars == <<fvars, evars, kvars>>

None == [kind |-> "None"]

(***************************************************************************)
(* Layout                                                                  *)
(***************************************************************************)
Layouts ==
    {"Rgb8", "Rgba8", "Rgb16", "Rgba16", "Gray8", "GrayAlpha8", "Gray16", "GrayAlpha16"}

Unimplemented == "unimplemented!()"

\* `layout as u8`: the enum discriminant.
LayoutAsU8(l) ==
    CASE l = "Rgb8" -> 0
      [] l = "Rgba8" -> 1
      [] l = "Rgb16" -> 2
      [] l = "Rgba16" -> 3
      [] l = "Gray8" -> 4
      [] l = "GrayAlpha8" -> 5
      [] l = "Gray16" -> 6
      [] l = "GrayAlpha16" -> 7

\* A decoder whose arms for 2 and 3 are exchanged.
LayoutFrom_Swapped(value) ==
    CASE value = 0 -> "Rgb8"
      [] value = 1 -> "Rgba8"
      [] value = 2 -> "Rgba16"
      [] value = 3 -> "Rgb16"
      [] value = 4 -> "Gray8"
      [] value = 5 -> "GrayAlpha8"
      [] value = 6 -> "Gray16"
      [] value = 7 -> "GrayAlpha16"
      [] OTHER -> Unimplemented

\* impl From<u8> for Layout.
LayoutFrom(value) ==
    CASE value = 0 -> "Rgb8"
      [] value = 1 -> "Rgba8"
      [] value = 2 -> "Rgb16"
      [] value = 3 -> "Rgba16"
      [] value = 4 -> "Gray8"
      [] value = 5 -> "GrayAlpha8"
      [] value = 6 -> "Gray16"
      [] value = 7 -> "GrayAlpha16"
      [] OTHER -> Unimplemented

\* What an index accessor yields in an unimplemented!() arm: no index.
UnimplementedIndex == 0 - 1

r_i(l) ==
    CASE l \in {"Rgb8", "Rgba8", "Rgb16", "Rgba16"} -> 0
      [] OTHER -> UnimplementedIndex

g_i(l) ==
    CASE l \in {"Rgb8", "Rgba8", "Rgb16", "Rgba16"} -> 1
      [] OTHER -> UnimplementedIndex

b_i(l) ==
    CASE l \in {"Rgb8", "Rgba8", "Rgb16", "Rgba16"} -> 2
      [] OTHER -> UnimplementedIndex

\* a_i with the alpha of every layout in the fourth place.
a_i_Fourth(l) ==
    CASE l \in {"Rgba8", "Rgba16", "GrayAlpha8", "GrayAlpha16"} -> 3
      [] OTHER -> UnimplementedIndex

a_i(l) ==
    CASE l \in {"Rgba8", "Rgba16"} -> 3
      [] l \in {"GrayAlpha8", "GrayAlpha16"} -> 1
      [] OTHER -> UnimplementedIndex

has_alpha(l) == l \in {"Rgba8", "Rgba16", "GrayAlpha8", "GrayAlpha16"}

\* is_16_bit with the two Gray comparisons dropped.
is_16_bit_RgbOnly(l) == l \in {"Rgb16", "Rgba16"}

is_16_bit(l) == l \in {"Rgb16", "Rgba16", "Gray16", "GrayAlpha16"}

channels(l) ==
    CASE l \in {"Rgb8", "Rgb16"} -> 3
      [] l \in {"Rgba8", "Rgba16"} -> 4
      [] l \in {"Gray8", "Gray16"} -> 1
      [] l \in {"GrayAlpha8", "GrayAlpha16"} -> 2

(***************************************************************************)
(* The transform factory                                                   *)
(***************************************************************************)
\* DataColorSpace values a profile may carry as color_space and as pcs.
ColorSpaces == {"Rgb", "Gray", "Cmyk", "Lab"}
PcsSpaces == {"Xyz", "Lab"}
RenderingIntents ==
    {"Perceptual", "RelativeColorimetric", "Saturation", "AbsoluteColorimetric"}

\* The fields of ColorProfile the factory reads.  trc_ok says whether the
\* table builders succeed on the profile's curves.
FactoryIntents == {"Perceptual", "AbsoluteColorimetric"}
Profiles ==
    [color_space : ColorSpaces, pcs : PcsSpaces,
     rendering_intent : FactoryIntents, trc_ok : BOOLEAN]

TransformOptionsSet == [allow_chroma_clipping : BOOLEAN]

Err(e) == [kind |-> "Err", err |-> e]
Panic(what) == [kind |-> "Panic", what |-> what]

\* Error of a table builder (build_*_linearize_table, build_gamma_table),
\* propagated by `?`.
BuildError == Err("InvalidTrc")

\* A factory whose match arms all name the Rgb8 specialisation.
MakePcsXYZRgbBit_Rgb8Arm(tbits, layout, linear_cap, gamma_lut, bit_depth, dst_pr, options, matrix) ==
    [kind |-> "Ok", exec |-> "TransformProfilePcsXYZRgbBit", T |-> tbits,
     LAYOUT |-> LayoutAsU8("Rgb8"), LINEAR_CAP |-> linear_cap,
     GAMMA_LUT |-> gamma_lut, BIT_DEPTH |-> bit_depth,
     rendering_intent |-> dst_pr.rendering_intent, options |-> options,
     adaptation_matrix |-> matrix]

\* Box::new(TransformProfilePcsXYZRgbBit::<T, LAYOUT, LINEAR_CAP, GAMMA_LUT> {..})
MakePcsXYZRgbBit(tbits, layout, linear_cap, gamma_lut, bit_depth, dst_pr, options, matrix) ==
    [kind |-> "Ok", exec |-> "TransformProfilePcsXYZRgbBit", T |-> tbits,
     LAYOUT |-> LayoutAsU8(layout), LINEAR_CAP |-> linear_cap,
     GAMMA_LUT |-> gamma_lut, BIT_DEPTH |-> bit_depth,
     rendering_intent |-> dst_pr.rendering_intent, options |-> options,
     adaptation_matrix |-> matrix]

\* TransformProfileGrayToRgb::<T, DEST_LAYOUT, BUCKET, BIT_DEPTH, GAMMA_LUT> {..}
MakeGrayToRgb(tbits, layout, bucket, bit_depth, gamma_lut) ==
    [kind |-> "Ok", exec |-> "TransformProfileGrayToRgb", T |-> tbits,
     LAYOUT |-> LayoutAsU8(layout), LINEAR_CAP |-> bucket,
     GAMMA_LUT |-> gamma_lut, BIT_DEPTH |-> bit_depth]

\* return create_cmyk_to_rgb(self, dst_pr, layout): the result is that
\* builder's.
DelegateCmykToRgb(layout) ==
    [kind |-> "Delegated", to |-> "create_cmyk_to_rgb", layout |-> layout]

IsRgbXyzPair(s, d) ==
    /\ s.color_space = "Rgb"
    /\ d.pcs = "Xyz"
    /\ d.color_space = "Rgb"
    /\ s.pcs = "Xyz"

\* The Gray connection test with the two pcs comparisons dropped.
IsGrayXyzPair_NoPcs(s, d) ==
    /\ s.color_space = "Gray"
    /\ d.color_space = "Rgb"

IsGrayXyzPair(s, d) ==
    /\ s.color_space = "Gray"
    /\ d.color_space = "Rgb"
    /\ s.pcs = "Xyz"
    /\ d.pcs = "Xyz"

IsCmykRgbPair(s, d) ==
    /\ s.color_space = "Cmyk"
    /\ d.color_space = "Rgb"

create_transform_nbit(bit_depth, linear_cap, gamma_cap, s, d, layout, options, matrix) ==
    IF layout \in {"Rgba8", "GrayAlpha8", "Rgb8", "Gray8"} THEN Err("InvalidLayout")
    ELSE IF IsRgbXyzPair(s, d) THEN
        IF layout \in {"Gray16", "GrayAlpha16"} THEN Err("InvalidLayout")
        ELSE IF ~(s.trc_ok /\ d.trc_ok) THEN BuildError
        ELSE CASE layout \in {"Rgb16", "Rgba16"} ->
                    MakePcsXYZRgbBit(16, layout, linear_cap, gamma_cap, bit_depth,
                                     d, options, matrix)
               [] OTHER -> Panic(Unimplemented)
    ELSE IF IsGrayXyzPair(s, d) THEN
        IF ~(s.trc_ok /\ d.trc_ok) THEN BuildError
        ELSE CASE layout \in {"Rgb16", "Rgba16", "Gray16", "GrayAlpha16"} ->
                    MakeGrayToRgb(16, layout, linear_cap, bit_depth, gamma_cap)
               [] OTHER -> Panic(Unimplemented)
    ELSE Err("UnsupportedProfileConnection")

create_transform_16bit(s, d, layout, options, matrix) ==
    create_transform_nbit(16, 65536, 65536, s, d, layout, options, matrix)

create_transform_12bit(s, d, layout, options, matrix) ==
    create_transform_nbit(12, 4096, 16384, s, d, layout, options, matrix)

create_transform_10bit(s, d, layout, options, matrix) ==
    create_transform_nbit(10, 1024, 8192, s, d, layout, options, matrix)

create_transform_8bit(s, d, layout, options, matrix) ==
    IF is_16_bit(layout) THEN Err("InvalidLayout")
    ELSE IF IsRgbXyzPair(s, d) THEN
        IF layout \in {"Gray8", "GrayAlpha8"} THEN Err("InvalidLayout")
        ELSE IF ~(s.trc_ok /\ d.trc_ok) THEN BuildError
        ELSE CASE layout \in {"Rgb8", "Rgba8"} ->
                    MakePcsXYZRgbBit(8, layout, 256, 8192, 8, d, options, matrix)
               [] OTHER -> Panic(Unimplemented)
    ELSE IF IsGrayXyzPair(s, d) THEN
        IF ~(s.trc_ok /\ d.trc_ok) THEN BuildError
        ELSE CASE layout \in {"Rgb8", "Rgba8", "Gray8", "GrayAlpha8"} ->
                    MakeGrayToRgb(8, layout, 256, 8, 8192)
               [] OTHER -> Panic(Unimplemented)
    ELSE IF IsCmykRgbPair(s, d) THEN
        IF layout \in {"Gray8", "GrayAlpha8"} THEN Err("InvalidLayout")
        ELSE DelegateCmykToRgb(layout)
    ELSE Err("UnsupportedProfileConnection")

\* Entries of a Matrix3f are held in units of 1 / MatDen.
MatDen == 4
\* Option<Matrix3f>::None.
NoMatrix == <<>>
\* Adaptation matrices: the identity and one that leaves the unit cube.
Matrices ==
    {<<<<MatDen, 0, 0>>, <<0, MatDen, 0>>, <<0, 0, MatDen>>>>,
     <<<<6, 0 - 1, 0 - 1>>, <<0 - 1, 6, 0 - 1>>, <<0, 0 - 2, 6>>>>}

\* self.transform_matrix(dst_pr): Option<Matrix3f>; the factory only stores it.
MatrixOptions == Matrices \cup {NoMatrix}

FactoryCall(entry, s, d, layout, options, matrix) ==
    [entry |-> entry, src |-> s, dst |-> d, layout |-> layout,
     options |-> options, matrix |-> matrix]

CreateTransform8bit ==
    /\ fcall = None
    /\ \E s \in Profiles, d \in Profiles, layout \in Layouts,
          options \in TransformOptionsSet, matrix \in MatrixOptions :
        /\ fcall' = FactoryCall("8bit", s, d, layout, options, matrix)
        /\ fret' = create_transform_8bit(s, d, layout, options, matrix)
    /\ UNCHANGED notFactoryVars

CreateTransform10bit ==
    /\ fcall = None
    /\ \E s \in Profiles, d \in Profiles, layout \in Layouts,
          options \in TransformOptionsSet, matrix \in MatrixOptions :
        /\ fcall' = FactoryCall("10bit", s, d, layout, options, matrix)
        /\ fret' = create_transform_10bit(s, d, layout, options, matrix)
    /\ UNCHANGED notFactoryVars

CreateTransform12bit ==
    /\ fcall = None
    /\ \E s \in Profiles, d \in Profiles, layout \in Layouts,
          options \in TransformOptionsSet, matrix \in MatrixOptions :
        /\ fcall' = FactoryCall("12bit", s, d, layout, options, matrix)
        /\ fret' = create_transform_12bit(s, d, layout, options, matrix)
    /\ UNCHANGED notFactoryVars

CreateTransform16bit ==
    /\ fcall = None
    /\ \E s \in Profiles, d \in Profiles, layout \in Layouts,
          options \in TransformOptionsSet, matrix \in MatrixOptions :
        /\ fcall' = FactoryCall("16bit", s, d, layout, options, matrix)
        /\ fret' = create_transform_16bit(s, d, layout, options, matrix)
    /\ UNCHANGED notFactoryVars

(***************************************************************************)
(* Numeric representation                                                  *)
(*                                                                         *)
(* An f32 of the scratch strip is <<"f", n>>, the number n / FDen, or      *)
(* <<"bits", a>>, the float whose bit pattern is the integer a # 0 (what   *)
(* f32::from_bits makes of an alpha sample: a subnormal).  Table entries   *)
(* are multiples of 1 / LinDen and matrix entries multiples of 1 / MatDen, *)
(* so every product the pipelines form is a whole multiple of 1 / FDen.    *)
(***************************************************************************)
LinDen == 255
FDen == LinDen * MatDen

\* The scratch strip: let mut working_set = [0f32; 672].
STRIP == 672
\* r_gamma, g_gamma, b_gamma, gray_gamma: Box<[T; 65536]>.
GAMMA_ARRAY == 65536

Min(a, b) == IF a < b THEN a ELSE b
Max(a, b) == IF a > b THEN a ELSE b
Pow2(n) == 2 ^ n

\* A non-negative f32 as its significand and exponent: [m, e] is the value
\* m / 2^e with 2^23 <= m < 2^24, or m = 0.
F32Zero == [m |-> 0, e |-> 0]

\* Binary long division until the quotient has 24 significant bits.
RECURSIVE F32DivStep(_, _, _, _)
F32DivStep(acc, rem, d, e) ==
    IF acc >= Pow2(23) THEN [m |-> acc, rem |-> rem, e |-> e]
    ELSE LET b == IF 2 * rem >= d THEN 1 ELSE 0
         IN  F32DivStep(2 * acc + b, 2 * rem - b * d, d, e + 1)

\* A significand that rounding carried to 2^24 is renormalised.
F32Norm(m, e) == IF m = Pow2(24) THEN [m |-> Pow2(23), e |-> e - 1] ELSE [m |-> m, e |-> e]

\* n as f32 / d as f32 for integers 0 <= n, 0 < d < 2^24.
F32Div(n, d) ==
    IF n = 0 THEN F32Zero
    ELSE LET q == F32DivStep(n \div d, n % d, d, 0)
             up == 2 * q.rem > d \/ (2 * q.rem = d /\ q.m % 2 = 1)
         IN  F32Norm(q.m + (IF up THEN 1 ELSE 0), q.e)

F(n) == <<"f", n>>
\* f32::from_bits(a as u32)
FromBits(a) == IF a = 0 THEN <<"f", 0>> ELSE <<"bits", a>>
\* The numerator over FDen of a scratch float (a subnormal counts as 0).
FNum(w) == IF w[1] = "f" THEN w[2] ELSE 0
\* f32::to_bits of the f32 nearest to n / FDen: the biased exponent
\* 127 + 23 - e in bits 23..30 over the 23 fraction bits m - 2^23
\* (0x3F800000 is 1.0).  A pattern with the sign bit set is given as the i32
\* of the same 32 bits (the u32 less 2^32), of which `as T` keeps the same
\* low bits.
ToBits(w) ==
    IF w[1] = "bits" THEN w[2]
    ELSE IF w[2] = 0 THEN 0
    ELSE LET q == F32Div(IF w[2] < 0 THEN 0 - w[2] ELSE w[2], FDen)
             mag == (149 - q.e) * Pow2(23) + q.m
         IN  IF w[2] > 0 THEN mag ELSE (mag - 2147483647) - 1
\* `f as usize`: truncates toward zero and saturates at 0.
AsUsize(w) == IF FNum(w) <= 0 THEN 0 ELSE FNum(w) \div FDen
\* A store through a byte whatever the storage type.
AsT_Byte(v, tbits) == v % 256
\* `u32 as T` for an unsigned T of tbits bits: keeps the low bits.
AsT(v, tbits) == v % Pow2(tbits)
\* (f * s).round() as usize: f32::round rounds half away from zero.
RoundScaled(w, s) ==
    IF FNum(w) <= 0 THEN 0 ELSE (2 * FNum(w) * s + FDen) \div (2 * FDen)

Ok == [kind |-> "Ok"]

(***************************************************************************)
(* Pre-baked tables.  Their contents come from the table builders; the     *)
(* executors only index them.  Two curve shapes are used as contents.      *)
(***************************************************************************)
Curves == {"ramp", "square"}

\* Entry c of a linearization table of `cap` entries, as a numerator over
\* LinDen.
LinearTable(curve, cap, c) ==
    LET ramp == (c * LinDen) \div (cap - 1)
    IN  IF curve = "ramp" THEN ramp ELSE (ramp * ramp) \div LinDen

\* Entry j of a gamma table, round(j * max / (gamma_lut - 1)) with the whole
\* multiples of gamma_lut - 1 in max taken out of the product; entries
\* beyond gamma_lut keep T::default().
GammaTable(gamma_lut, bit_depth, tbits, j) ==
    LET max == Pow2(bit_depth) - 1
        s == gamma_lut - 1
    IN  IF j >= gamma_lut THEN 0
        ELSE AsT(j * (max \div s) + (2 * j * (max % s) + s) \div (2 * s), tbits)

(***************************************************************************)
(* TransformProfileGrayToRgb                                               *)
(***************************************************************************)
\* The Gray lane checks with the source length divided by the channel count
\* as well.
GrayLaneCheck_SrcDivided(e, s, d) ==
    LET cn == LayoutFrom(e.cfg.LAYOUT)
        ch == channels(cn)
    IN  IF Len(s) \div ch # Len(d) \div ch THEN Err("LaneSizeMismatch")
        ELSE IF Len(d) % ch # 0 THEN Err("LaneMultipleOfChannels")
        ELSE Ok

\* The lane checks of TransformProfileGrayToRgb::transform.
GrayLaneCheck(e, s, d) ==
    LET cn == LayoutFrom(e.cfg.LAYOUT)
        ch == channels(cn)
    IN  IF Len(s) # Len(d) \div ch THEN Err("LaneSizeMismatch")
        ELSE IF Len(d) % ch # 0 THEN Err("LaneMultipleOfChannels")
        ELSE Ok

\* let chunks = 672 / channels: the length of the dst chunks the full source
\* strips are zipped with.
GrayDstChunk(e) == STRIP \div channels(LayoutFrom(e.cfg.LAYOUT))

\* Number of (src, dst) pairs of
\* src.chunks_exact(672).zip(dst.chunks_exact_mut(chunks)).
GrayStripPairs(e, s, d) == Min(Len(s) \div STRIP, Len(d) \div GrayDstChunk(e))

\* The sample transform_chunk stores in channel c of a destination pixel
\* whose scratch entry is w.
GrayStore(e, w, c) ==
    LET cn == LayoutFrom(e.cfg.LAYOUT)
        gamma_value == GammaTable(e.cfg.GAMMA_LUT, e.cfg.BIT_DEPTH, e.cfg.T,
                                  RoundScaled(w, e.cfg.GAMMA_LUT - 1))
        max_value == AsT(Pow2(e.cfg.BIT_DEPTH) - 1, e.cfg.T)
    IN  IF cn \in {"Gray8", "GrayAlpha8", "Gray16", "GrayAlpha16"}
        THEN IF c = 0 THEN gamma_value ELSE max_value
        ELSE IF c \in {r_i(cn), g_i(cn), b_i(cn)} THEN gamma_value ELSE max_value

\* The indices the store loop of transform_chunk asks the index accessors of
\* its layout for.
GrayAccessorCalls(e) ==
    LET cn == LayoutFrom(e.cfg.LAYOUT)
    IN  IF cn \in {"Gray8", "GrayAlpha8", "Gray16", "GrayAlpha16"} THEN {}
        ELSE {r_i(cn), g_i(cn), b_i(cn)} \cup (IF has_alpha(cn) THEN {a_i(cn)} ELSE {})

\* The linearization loop of TransformProfileGrayToRgb::transform_chunk on
\* src[sOff+1 .. sOff+sLen]: the new scratch, and whether a table index was
\* out of range (a panic).
GrayLoad(e, s, sOff, sLen, ws) ==
    LET n1 == Min(sLen, STRIP)
        badi == {i \in 1..n1 : s[sOff + i] >= e.cfg.LINEAR_CAP}
        bad1 == badi # {}
        \* the loop stops at the first lookup out of range
        first == IF bad1 THEN CHOOSE i \in badi : \A k \in badi : i <= k ELSE n1 + 1
    IN  [ws |-> [i \in 1..STRIP |->
                    IF i < first
                    THEN F(LinearTable(e.curve, e.cfg.LINEAR_CAP, s[sOff + i]) * MatDen)
                    ELSE ws[i]],
         panic |-> bad1]

\* The store loop of transform_chunk from the scratch ld.ws into
\* dst[dOff+1 .. dOff+dLen]: the new dst and store counts.
GrayStoreChunk(e, ld, d, dOff, dLen, wc) ==
    LET cn == LayoutFrom(e.cfg.LAYOUT)
        ch == channels(cn)
        ws1 == ld.ws
        npx == Min(STRIP, dLen \div ch)
        badpx == {p \in 1..npx : RoundScaled(ws1[p], e.cfg.GAMMA_LUT - 1) >= GAMMA_ARRAY}
        lim == IF ld.panic THEN 0
               ELSE IF badpx = {} THEN npx
               ELSE (CHOOSE p \in badpx : \A q \in badpx : p <= q) - 1
        hit(j) == j > dOff /\ j <= dOff + lim * ch
    IN  [ws |-> ws1,
         dst |-> [j \in 1..Len(d) |->
                    IF hit(j)
                    THEN GrayStore(e, ws1[((j - dOff - 1) \div ch) + 1], (j - dOff - 1) % ch)
                    ELSE d[j]],
         wc |-> [j \in 1..Len(d) |-> IF hit(j) THEN wc[j] + 1 ELSE wc[j]],
         panic |-> ld.panic \/ badpx # {}]

\* TransformProfileGrayToRgb::transform_chunk on src[sOff+1 .. sOff+sLen] and
\* dst[dOff+1 .. dOff+dLen].
GrayTransformChunk(e, s, sOff, sLen, d, dOff, dLen, ws, wc) ==
    GrayStoreChunk(e, GrayLoad(e, s, sOff, sLen, ws), d, dOff, dLen, wc)

(***************************************************************************)
(* Matrix stages (crate::stages), applied in place to a strip of pixels.   *)
(* A matrix is <<row1, row2, row3>> with entries in units of 1 / MatDen.   *)
(***************************************************************************)
Abs(n) == IF n < 0 THEN 0 - n ELSE n

\* Row i of M times the colour triple px (numerators over FDen).
MatVecNum(M, px, i) ==
    (M[i][1] * FNum(px[1]) + M[i][2] * FNum(px[2]) + M[i][3] * FNum(px[3])) \div MatDen

\* (n / den) * s clamped to [0, s] and rounded to nearest.
ClipRound(n, den, s) ==
    IF n <= 0 THEN 0
    ELSE IF n >= den THEN s
    ELSE (2 * n * s + den) \div (2 * den)

\* MatrixStage { matrix }: (r, g, b) <- M * (r, g, b).
MatrixStagePx(M, px) == [i \in 1..3 |-> F(MatVecNum(M, px, i))]

\* MatrixClipScaleStage { matrix, scale }: M * (r, g, b), times scale,
\* clamped to [0, scale], rounded.
MatrixClipScaleStagePx(M, scale, px) ==
    [i \in 1..3 |-> F(FDen * ClipRound(MatVecNum(M, px, i), FDen, scale))]

\* GamutClipScaleStage { scale }: if the largest magnitude m exceeds 1 the
\* triple is divided by m; then scaled to [0, scale] and rounded.
GamutClipScaleStagePx(scale, px) ==
    LET m == Max(Abs(FNum(px[1])), Max(Abs(FNum(px[2])), Abs(FNum(px[3]))))
        den == IF m > FDen THEN m ELSE FDen
    IN  [i \in 1..3 |-> F(FDen * ClipRound(FNum(px[i]), den, scale))]

(***************************************************************************)
(* TransformProfilePcsXYZRgbBit                                            *)
(***************************************************************************)
OtherCurve(c) == IF c = "ramp" THEN "square" ELSE "ramp"

\* profile.r_linear / g_linear / b_linear, as numerators over FDen.
r_linear(e, v) == LinearTable(e.curve, e.cfg.LINEAR_CAP, v) * MatDen
g_linear(e, v) == LinearTable(OtherCurve(e.curve), e.cfg.LINEAR_CAP, v) * MatDen
b_linear(e, v) == LinearTable("square", e.cfg.LINEAR_CAP, v) * MatDen

\* profile.r_gamma / g_gamma / b_gamma.
r_gamma(e, j) == GammaTable(e.cfg.GAMMA_LUT, e.cfg.BIT_DEPTH, e.cfg.T, j)
g_gamma(e, j) == GammaTable(e.cfg.GAMMA_LUT, e.cfg.BIT_DEPTH, e.cfg.T, j)
b_gamma(e, j) == GammaTable(e.cfg.GAMMA_LUT, e.cfg.BIT_DEPTH, e.cfg.T, j)

\* The lane checks of TransformProfilePcsXYZRgbBit::transform.
RgbLaneCheck(e, s, d) ==
    LET ch == channels(LayoutFrom(e.cfg.LAYOUT))
    IN  IF Len(s) # Len(d) THEN Err("LaneSizeMismatch")
        ELSE IF Len(s) % ch # 0 THEN Err("LaneMultipleOfChannels")
        ELSE IF Len(d) % ch # 0 THEN Err("LaneMultipleOfChannels")
        ELSE Ok

\* A strip length that neither 3 nor 4 divides.
RgbChunk_Indivisible == STRIP - 2
\* A strip one RGBA pixel and one RGB pixel longer than the scratch.
RgbChunk_Oversize == STRIP + 12

\* let chunks = 672: the strip length of both buffers.
RgbChunk == STRIP

RgbStripPairs(s, d) == Min(Len(s) \div RgbChunk, Len(d) \div RgbChunk)

\* The test with the rendering intent left out.
UseGamutClip_AnyIntent(e) == e.cfg.options.allow_chroma_clipping

\* gamut_clipping_intent && self.options.allow_chroma_clipping
UseGamutClip(e) ==
    /\ e.cfg.rendering_intent \in {"Perceptual", "RelativeColorimetric", "Saturation"}
    /\ e.cfg.options.allow_chroma_clipping

\* The stages transform_chunk constructs and runs on a strip, in order.
RgbPipeline(e) ==
    LET cap_values == e.cfg.GAMMA_LUT - 1
        M == e.cfg.adaptation_matrix
    IN  IF M = NoMatrix THEN <<>>
        ELSE IF UseGamutClip(e)
        THEN <<[stage |-> "MatrixStage", matrix |-> M, scale |-> 0],
               [stage |-> "GamutClipScaleStage", matrix |-> NoMatrix, scale |-> cap_values]>>
        ELSE <<[stage |-> "MatrixClipScaleStage", matrix |-> M, scale |-> cap_values]>>

\* stage.transform on one pixel.
StageTransformPx(st, px) ==
    CASE st.stage = "MatrixStage" -> MatrixStagePx(st.matrix, px)
      [] st.stage = "GamutClipScaleStage" -> GamutClipScaleStagePx(st.scale, px)
      [] st.stage = "MatrixClipScaleStage" -> MatrixClipScaleStagePx(st.matrix, st.scale, px)

RECURSIVE RunStagesPx(_, _)
RunStagesPx(stages, px) ==
    IF stages = <<>> THEN px
    ELSE RunStagesPx(Tail(stages), StageTransformPx(Head(stages), px))

\* What the stage pipeline of transform_chunk makes of one linearized pixel.
RgbStagesPx(e, px) == RunStagesPx(RgbPipeline(e), px)

\* The indices the two loops of transform_chunk ask the index accessors of
\* its layout for.
RgbAccessorCalls(e) ==
    LET cn == LayoutFrom(e.cfg.LAYOUT)
    IN  {r_i(cn), g_i(cn), b_i(cn)} \cup (IF channels(cn) = 4 THEN {a_i(cn)} ELSE {})

\* Number of pixels the linearization loop of transform_chunk fills:
\* src.chunks_exact(channels).zip(working_set.chunks_exact_mut(channels)).
RgbLoadPixels(sLen, ch) == Min(sLen \div ch, STRIP \div ch)

\* Number of pixels the store loop of transform_chunk writes:
\* working_set.chunks_exact(channels).zip(dst.chunks_exact_mut(channels)).
RgbStorePixels(dLen, ch) == Min(STRIP \div ch, dLen \div ch)

\* The linearization loop and the stages of
\* TransformProfilePcsXYZRgbBit::transform_chunk on src[sOff+1 .. sOff+sLen]:
\* the new scratch, and whether the chunk panicked.
RgbLoad(e, s, sOff, sLen, ws) ==
    LET cn == LayoutFrom(e.cfg.LAYOUT)
        ch == channels(cn)
        n1 == RgbLoadPixels(sLen, ch)
        smp(p, k) == s[sOff + p * ch + k + 1]
        badpx == {p \in 0..(n1 - 1) :
                    \/ smp(p, r_i(cn)) >= e.cfg.LINEAR_CAP
                    \/ smp(p, g_i(cn)) >= e.cfg.LINEAR_CAP
                    \/ smp(p, b_i(cn)) >= e.cfg.LINEAR_CAP}
        bad1 == badpx # {}
        \* dst[0], dst[1], dst[2] are loaded one after the other: the loop
        \* stops at the first lookup out of range, past the lanes loaded
        \* before it.
        first == IF bad1 THEN CHOOSE p \in badpx : \A q \in badpx : p <= q ELSE n1
        part == IF ~bad1 THEN 0
                ELSE IF smp(first, r_i(cn)) >= e.cfg.LINEAR_CAP THEN 0
                ELSE IF smp(first, g_i(cn)) >= e.cfg.LINEAR_CAP THEN 1
                ELSE 2
        load(p, c) ==
            CASE c = 0 -> F(r_linear(e, smp(p, r_i(cn))))
              [] c = 1 -> F(g_linear(e, smp(p, g_i(cn))))
              [] c = 2 -> F(b_linear(e, smp(p, b_i(cn))))
              [] c = 3 -> FromBits(smp(p, a_i(cn)))
        ws1 == [i \in 1..STRIP |->
                  IF \/ i <= first * ch
                     \/ (i - 1) \div ch = first /\ (i - 1) % ch < part
                  THEN load((i - 1) \div ch, (i - 1) % ch)
                  ELSE ws[i]]
        \* assert!(src.len() <= 672)
        badAssert == e.cfg.adaptation_matrix # NoMatrix /\ sLen > STRIP
        \* the stages run over sliced = working_set[..src.len()]
        nsl == Min(sLen, STRIP) \div ch
        staged(p) == RgbStagesPx(e, <<ws1[p * ch + 1], ws1[p * ch + 2], ws1[p * ch + 3]>>)
    IN  [ws |-> [i \in 1..STRIP |->
                    IF ~bad1 /\ ~badAssert /\ i <= nsl * ch /\ (i - 1) % ch < 3
                    THEN staged((i - 1) \div ch)[((i - 1) % ch) + 1]
                    ELSE ws1[i]],
         panic |-> bad1 \/ badAssert,
         assert |-> ~bad1 /\ badAssert]

\* The store loop of transform_chunk from the scratch ld.ws into
\* dst[dOff+1 .. dOff+dLen].
RgbStoreChunk(e, ld, d, dOff, dLen, wc) ==
    LET cn == LayoutFrom(e.cfg.LAYOUT)
        ch == channels(cn)
        ws2 == ld.ws
        n3 == RgbStorePixels(dLen, ch)
        badpx == {p \in 0..(n3 - 1) :
                    \E c \in 1..3 : AsUsize(ws2[p * ch + c]) >= GAMMA_ARRAY}
        lim == IF ld.panic THEN 0
               ELSE IF badpx = {} THEN n3
               ELSE CHOOSE p \in badpx : \A q \in badpx : p <= q
        \* dst[r_i], dst[g_i], dst[b_i] are stored one after the other: the
        \* pixel whose lookup panics keeps the channels stored before it.
        part == IF ld.panic \/ badpx = {} THEN 0
                ELSE IF AsUsize(ws2[lim * ch + 1]) >= GAMMA_ARRAY THEN 0
                ELSE IF AsUsize(ws2[lim * ch + 2]) >= GAMMA_ARRAY THEN 1
                ELSE 2
        hit(j) ==
            /\ j > dOff
            /\ \/ j <= dOff + lim * ch
               \/ /\ (j - dOff - 1) \div ch = lim
                  /\ \/ part >= 1 /\ (j - dOff - 1) % ch = r_i(cn)
                     \/ part >= 2 /\ (j - dOff - 1) % ch = g_i(cn)
        store(p, k) ==
            CASE k = r_i(cn) -> r_gamma(e, AsUsize(ws2[p * ch + 1]))
              [] k = g_i(cn) -> g_gamma(e, AsUsize(ws2[p * ch + 2]))
              [] k = b_i(cn) -> b_gamma(e, AsUsize(ws2[p * ch + 3]))
              [] OTHER -> AsT(ToBits(ws2[p * ch + 4]), e.cfg.T)
    IN  [ws |-> ws2,
         dst |-> [j \in 1..Len(d) |->
                    IF hit(j) THEN store((j - dOff - 1) \div ch, (j - dOff - 1) % ch)
                    ELSE d[j]],
         wc |-> [j \in 1..Len(d) |-> IF hit(j) THEN wc[j] + 1 ELSE wc[j]],
         panic |-> ld.panic \/ badpx # {},
         assert |-> ld.assert]

\* The panic of a chunk: the failed assert!(src.len() <= 672), or an index
\* out of the bounds of a table.
AssertFailed == Panic("assertion failed: src.len() <= 672")
RgbPanic(r) == IF r.assert THEN AssertFailed ELSE Panic("index out of bounds")

\* TransformProfilePcsXYZRgbBit::transform_chunk on src[sOff+1 .. sOff+sLen]
\* and dst[dOff+1 .. dOff+dLen].
RgbTransformChunk(e, s, sOff, sLen, d, dOff, dLen, ws, wc) ==
    RgbStoreChunk(e, RgbLoad(e, s, sOff, sLen, ws), d, dOff, dLen, wc)

(***************************************************************************)
(* TransformProfileRgbQ12Sse: the fixed-point Q4.12 kernel                 *)
(***************************************************************************)
Q12 == 4096
\* const ROUNDING_Q4_12: i32 = (1 << (12 - 1)) - 1
ROUNDING_Q4_12 == 2047

\* A 16-bit half of a 32-bit lane, read as a signed 16-bit integer.
Signed16(u) == IF u >= 32768 THEN u - 65536 ELSE u
Lo16(v) == Signed16(v % 65536)
Hi16(v) == Signed16((v \div 65536) % 65536)

\* The range of a 32-bit signed lane.
MaxI32 == 2147483647
MinI32 == (-MaxI32) - 1

\* The sum a + b of two 32-bit signed values is itself one.
NoWrap32(a, b) == IF b >= 0 THEN a <= MaxI32 - b ELSE a >= MinI32 - b

\* One 32-bit lane of _mm_add_epi32(a, b): the sum modulo 2^32.
AddEpi32(a, b) ==
    IF NoWrap32(a, b) THEN a + b
    ELSE IF b >= 0 THEN (a - MaxI32 - 1) + (b - MaxI32 - 1)
    ELSE (a + MaxI32 + 1) + (b + MaxI32 + 1)

\* A multiply-add whose products carry three more fraction bits.
MaddEpi16_Q15(a, b) == 8 * (Lo16(a) * Lo16(b) + Hi16(a) * Hi16(b))

\* One 32-bit lane of _mm_madd_epi16(a, b).
MaddEpi16(a, b) == AddEpi32(Lo16(a) * Lo16(b), Hi16(a) * Hi16(b))

\* A transpose that leaves the matrix as it is.
Transpose_None(m) == m

\* Matrix3::transpose.
Transpose(m) == [i \in 1..3 |-> [j \in 1..3 |-> m[j][i]]]

\* The vector arithmetic of one pixel of transform_impl: mq is
\* profile.adaptation_matrix (Q4.12), r, g, b the three linear table values.
\* Every field is the sequence of lanes 0..2 of the register of that name.
SseKernel(mq, gamma_lut, r, g, b) ==
    LET t == Transpose(mq)
        \* m0, m1, m2 = _mm_setr_epi32(t.v[k][0], t.v[k][1], t.v[k][2], 0)
        v0 == [i \in 1..3 |-> MaddEpi16(r, t[1][i])]
        v1 == [i \in 1..3 |-> MaddEpi16(g, t[2][i])]
        v2 == [i \in 1..3 |-> MaddEpi16(b, t[3][i])]
        acc0 == [i \in 1..3 |-> AddEpi32(v0[i], ROUNDING_Q4_12)]
        acc1 == [i \in 1..3 |-> AddEpi32(v1[i], v2[i])]
        v == [i \in 1..3 |-> AddEpi32(acc0[i], acc1[i])]
        \* _mm_srai_epi32::<12>, _mm_max_epi32, _mm_min_epi32
        cl == [i \in 1..3 |-> Min(Max(v[i] \div Q12, 0), gamma_lut - 1)]
    IN  [v0 |-> v0, v1 |-> v1, v2 |-> v2, acc0 |-> acc0, acc1 |-> acc1,
         v |-> v, clamped |-> cl,
         \* temporary.0[0], [2], [4]: the low 16 bits of lanes 0..2
         temporary |-> [i \in 1..3 |-> cl[i] % 65536]]

\* profile.r_linear / g_linear / b_linear of the fixed-point profile: i32
\* values in Q4.12.
SseLinear(e, ch, v) ==
    LET curve == CASE ch = 0 -> e.curve [] ch = 1 -> OtherCurve(e.curve) [] OTHER -> "square"
    IN  (LinearTable(curve, e.cfg.LINEAR_CAP, v) * Q12) \div LinDen

\* Entry [i][j] of profile.adaptation_matrix in Q4.12.
SseMatrix(e, i, j) == (e.cfg.adaptation_matrix[i][j] * Q12) \div MatDen

\* The lane checks of TransformProfileRgbQ12Sse::transform_impl.
SseLaneCheck(e, s, d) ==
    LET src_channels == channels(LayoutFrom(e.cfg.SRC_LAYOUT))
        dst_channels == channels(LayoutFrom(e.cfg.DST_LAYOUT))
    IN  IF Len(s) \div src_channels # Len(d) \div dst_channels
        THEN Err("LaneSizeMismatch")
        ELSE IF Len(s) % src_channels # 0 THEN Err("LaneMultipleOfChannels")
        ELSE IF Len(d) % dst_channels # 0 THEN Err("LaneMultipleOfChannels")
        ELSE Ok

\* profile.adaptation_matrix of executor e, in Q4.12.
SseMatrixQ(e) == [i \in 1..3 |-> [j \in 1..3 |-> SseMatrix(e, i, j)]]

\* Lane i (1..3) of v after the shift and the clamp, for linear values
\* r, g, b.
SseLane(e, r, g, b, i) ==
    SseKernel(SseMatrixQ(e), e.cfg.GAMMA_LUT, r, g, b).clamped[i]

\* temporary.0[2 * (i - 1)]: the low 16 bits of lane i.
SseTemp(e, r, g, b, i) ==
    SseKernel(SseMatrixQ(e), e.cfg.GAMMA_LUT, r, g, b).temporary[i]

\* The sample the kernel stores in channel k of the destination pixel made
\* from the source pixel px (a sequence of src_channels samples).
SseStore(e, px, k) ==
    LET src_cn == LayoutFrom(e.cfg.SRC_LAYOUT)
        dst_cn == LayoutFrom(e.cfg.DST_LAYOUT)
        r == SseLinear(e, 0, px[r_i(src_cn) + 1])
        g == SseLinear(e, 1, px[g_i(src_cn) + 1])
        b == SseLinear(e, 2, px[b_i(src_cn) + 1])
        a == IF channels(src_cn) = 4 THEN px[a_i(src_cn) + 1]
             ELSE AsT(Pow2(e.cfg.BIT_DEPTH) - 1, e.cfg.T)
    IN  CASE k = r_i(dst_cn) -> r_gamma(e, SseTemp(e, r, g, b, 1))
          [] k = g_i(dst_cn) -> g_gamma(e, SseTemp(e, r, g, b, 2))
          [] k = b_i(dst_cn) -> b_gamma(e, SseTemp(e, r, g, b, 3))
          [] OTHER -> a

\* The pixel loop of transform_impl:
\* src.chunks_exact(src_channels).zip(dst.chunks_exact_mut(dst_channels)).
SseLoop(e, s, d, wc) ==
    LET sch == channels(LayoutFrom(e.cfg.SRC_LAYOUT))
        dch == channels(LayoutFrom(e.cfg.DST_LAYOUT))
        npx == Min(Len(s) \div sch, Len(d) \div dch)
        pixel(p) == [k \in 1..sch |-> s[p * sch + k]]
        badpx == {p \in 0..(npx - 1) :
                    \E k \in 1..3 : pixel(p)[k] >= e.cfg.LINEAR_CAP}
        lim == IF badpx = {} THEN npx
               ELSE CHOOSE p \in badpx : \A q \in badpx : p <= q
        hit(j) == j <= lim * dch
    IN  [dst |-> [j \in 1..Len(d) |->
                    IF hit(j) THEN SseStore(e, pixel((j - 1) \div dch), (j - 1) % dch)
                    ELSE d[j]],
         wc |-> [j \in 1..Len(d) |-> IF hit(j) THEN wc[j] + 1 ELSE wc[j]],
         panic |-> badpx # {}]

(***************************************************************************)
(* CLUT executors.  The sample an interpolation kernel computes from a     *)
(* source pixel is kept as the term <<kernel, method, pixel, channel>>.    *)
(***************************************************************************)
InterpolationMethods == {"Tetrahedral", "Pyramid", "Prism", "Linear"}

\* The 3->4 lane checks with the pixel-count comparison made first.
Lut3x4LaneCheck_CountFirst(e, s, d) ==
    LET ch == channels(LayoutFrom(e.cfg.LAYOUT))
    IN  IF Len(s) \div ch # Len(d) \div 4 THEN Err("LaneSizeMismatch")
        ELSE IF Len(s) % ch # 0 THEN Err("LaneMultipleOfChannels")
        ELSE IF Len(d) % 4 # 0 THEN Err("LaneMultipleOfChannels")
        ELSE Ok

\* The lane checks of TransformLut3x4::transform (3 or 4 samples in, 4 out).
Lut3x4LaneCheck(e, s, d) ==
    LET ch == channels(LayoutFrom(e.cfg.LAYOUT))
    IN  IF Len(s) % ch # 0 THEN Err("LaneMultipleOfChannels")
        ELSE IF Len(d) % 4 # 0 THEN Err("LaneMultipleOfChannels")
        ELSE IF Len(s) \div ch # Len(d) \div 4 THEN Err("LaneSizeMismatch")
        ELSE Ok

\* TransformLut3x4::transform_chunk:
\* src.chunks_exact(channels).zip(dst.chunks_exact_mut(4)).
Lut3x4Loop(e, s, d, wc) ==
    LET cn == LayoutFrom(e.cfg.LAYOUT)
        ch == channels(cn)
        npx == Min(Len(s) \div ch, Len(d) \div 4)
        xyz(p) == <<s[p * ch + r_i(cn) + 1], s[p * ch + g_i(cn) + 1], s[p * ch + b_i(cn) + 1]>>
        hit(j) == j <= npx * 4
    IN  [dst |-> [j \in 1..Len(d) |->
                    IF hit(j)
                    THEN <<"TransformLut3x4", e.cfg.interpolation_method,
                           xyz((j - 1) \div 4), (j - 1) % 4>>
                    ELSE d[j]],
         wc |-> [j \in 1..Len(d) |-> IF hit(j) THEN wc[j] + 1 ELSE wc[j]],
         panic |-> FALSE]

\* The lane checks of TransformLut4XyzToRgbAvx::transform and
\* TransformLut4XyzToRgbNeon::transform (4 samples in, 3 or 4 out).
Lut4x3LaneCheck(e, s, d) ==
    LET ch == channels(LayoutFrom(e.cfg.LAYOUT))
    IN  IF Len(s) % 4 # 0 THEN Err("LaneMultipleOfChannels")
        ELSE IF Len(d) % ch # 0 THEN Err("LaneMultipleOfChannels")
        ELSE IF Len(s) \div 4 # Len(d) \div ch THEN Err("LaneSizeMismatch")
        ELSE Ok

\* TransformLut4XyzToRgbAvx::transform_chunk (and the NEON twin):
\* src.chunks_exact(4).zip(dst.chunks_exact_mut(channels)).
Lut4x3Loop(e, s, d, wc) ==
    LET cn == LayoutFrom(e.cfg.LAYOUT)
        ch == channels(cn)
        npx == Min(Len(s) \div 4, Len(d) \div ch)
        cmyk(p) == <<s[p * 4 + 1], s[p * 4 + 2], s[p * 4 + 3], s[p * 4 + 4]>>
        max_value == AsT(Pow2(e.cfg.BIT_DEPTH) - 1, e.cfg.T)
        hit(j) == j <= npx * ch
        store(p, k) ==
            IF k \in {r_i(cn), g_i(cn), b_i(cn)}
            THEN <<e.cfg.exec, e.cfg.interpolation_method, cmyk(p), k>>
            ELSE max_value
    IN  [dst |-> [j \in 1..Len(d) |->
                    IF hit(j) THEN store((j - 1) \div ch, (j - 1) % ch) ELSE d[j]],
         wc |-> [j \in 1..Len(d) |-> IF hit(j) THEN wc[j] + 1 ELSE wc[j]],
         panic |-> FALSE]

(***************************************************************************)
(* The K axis of the CLUT 4->3 kernels, on the f32 values [m, e] of the    *)
(* numeric representation above.  Every operation rounds to nearest, ties  *)
(* to even.                                                                *)
(***************************************************************************)
\* LUT_SAMPLING of conversions::lut_transforms.
LUT_SAMPLING == 255

\* rounding_div_ceil(a, b) for non-negative a: (a + b - 1) / b.
rounding_div_ceil(a, b) == (a + b - 1) \div b

\* x * (s as f32) for an integer 0 <= s < 2^8: the 32-bit product of the
\* significand is formed in two 12-bit halves and rounded back to 24 bits.
F32MulInt(x, s) ==
    IF x.m = 0 \/ s = 0 THEN F32Zero
    ELSE LET lo0 == (x.m % 4096) * s
             hi == (x.m \div 4096) * s + lo0 \div 4096
             lo == lo0 % 4096
             sh == CHOOSE k \in 0..12 :
                       hi < Pow2(12 + k) /\ (k = 0 \/ hi >= Pow2(11 + k))
             q == hi * Pow2(12 - sh) + lo \div Pow2(sh)
             r == lo % Pow2(sh)
             up == sh > 0 /\ (2 * r > Pow2(sh) \/ (2 * r = Pow2(sh) /\ q % 2 = 1))
         IN  F32Norm(q + (IF up THEN 1 ELSE 0), x.e - sh)

\* x - (w as f32) for an integer 0 <= w <= x: exact, the two being within a
\* factor of two of each other (or w = 0).  The result is num / 2^e.
F32SubInt(x, w) ==
    IF w = 0 THEN [num |-> x.m, e |-> x.e]
    ELSE [num |-> x.m - w * Pow2(x.e), e |-> x.e]

\* A lower corner computed with the grid size for the grid step.
Lut4x3W_GridSize(k, grid_size) == (k * grid_size) \div LUT_SAMPLING

\* let w: i32 = k as i32 * (GRID_SIZE as i32 - 1) / LUT_SAMPLING as i32
Lut4x3W(k, grid_size) == (k * (grid_size - 1)) \div LUT_SAMPLING

\* The K-axis values of one pixel of transform_chunk (AVX and NEON alike):
\* the two cube indices, the blend weight and the offsets of the two table
\* slices, for the compressed sample k and GRID_SIZE grid_size.
Lut4x3Weights(k, grid_size) ==
    LET linear_k == F32Div(k, LUT_SAMPLING)
        w == Lut4x3W(k, grid_size)
        w_n == rounding_div_ceil(k * (grid_size - 1), LUT_SAMPLING)
        t == F32SubInt(F32MulInt(linear_k, grid_size - 1), w)
        grid_size3 == grid_size * grid_size * grid_size
    IN  [w |-> w, w_n |-> w_n, t |-> t,
         table1 |-> w * grid_size3, table2 |-> w_n * grid_size3]

(***************************************************************************)
(* The stores of the CLUT kernels for an integer storage type.  A float of *)
(* a kernel is <<"num", n>> (the value n / CDen), <<"nan", 0>> or          *)
(* <<"inf", s>> with s the sign; products and sums are exact.              *)
(***************************************************************************)
\* Interpolated values are multiples of 1 / VDen, blend weights of 1 / TDen.
VDen == 8
TDen == 4
CDen == 2 * VDen * TDen

CNum(n) == <<"num", n>>
CNaN == <<"nan", 0>>
CInf(sgn) == <<"inf", sgn>>
CIsNaN(x) == x[1] = "nan"
CSign(x) ==
    IF x[1] = "inf" THEN x[2]
    ELSE IF x[2] > 0 THEN 1 ELSE IF x[2] < 0 THEN -1 ELSE 0
\* x < y for two floats that are not NaN.
CLess(x, y) ==
    IF x[1] = "inf" THEN x[2] < 0 /\ y # x
    ELSE IF y[1] = "inf" THEN y[2] > 0
    ELSE x[2] < y[2]

\* IEEE multiplication and addition.
CMul(x, y) ==
    IF CIsNaN(x) \/ CIsNaN(y) THEN CNaN
    ELSE IF x[1] = "inf" \/ y[1] = "inf"
         THEN (IF CSign(x) * CSign(y) = 0 THEN CNaN ELSE CInf(CSign(x) * CSign(y)))
    ELSE CNum((x[2] * y[2]) \div CDen)
CAdd(x, y) ==
    IF CIsNaN(x) \/ CIsNaN(y) THEN CNaN
    ELSE IF x[1] = "inf" /\ y[1] = "inf" THEN (IF x = y THEN x ELSE CNaN)
    ELSE IF x[1] = "inf" THEN x
    ELSE IF y[1] = "inf" THEN y
    ELSE CNum(x[2] + y[2])
CSub(x, y) ==
    CAdd(x, IF y[1] = "num" THEN CNum(-y[2]) ELSE IF CIsNaN(y) THEN y ELSE CInf(-y[2]))

\* _mm_max_ps / _mm_min_ps: the second operand when either is NaN.
MaxPs(a, b) == IF CIsNaN(a) \/ CIsNaN(b) THEN b ELSE IF CLess(b, a) THEN a ELSE b
MinPs(a, b) == IF CIsNaN(a) \/ CIsNaN(b) THEN b ELSE IF CLess(a, b) THEN a ELSE b
\* f32::max / f32::min: the other operand when one is NaN.
F32Max(a, b) == IF CIsNaN(a) THEN b ELSE IF CIsNaN(b) THEN a ELSE IF CLess(a, b) THEN b ELSE a
F32Min(a, b) == IF CIsNaN(a) THEN b ELSE IF CIsNaN(b) THEN a ELSE IF CLess(b, a) THEN b ELSE a
\* A minimum that lets its first operand through.
VminqF32_None(a, b) == a
\* vminq_f32: NaN when either operand is NaN.
VminqF32(a, b) == IF CIsNaN(a) \/ CIsNaN(b) THEN CNaN ELSE IF CLess(a, b) THEN a ELSE b

\* One lane of _mm_cvtps_epi32: round to nearest, ties to even; the integer
\* indefinite value 0x80000000 for NaN, the infinities and values out of range.
CvtPsEpi32(x) ==
    IF x[1] # "num" THEN MinI32
    ELSE LET q == x[2] \div CDen
             r == x[2] % CDen
         IN  IF 2 * r > CDen \/ (2 * r = CDen /\ q % 2 = 1) THEN q + 1 ELSE q

\* One lane of vcvtaq_u32_f32 converted to T by `as_()`: round to nearest,
\* ties away from zero, saturating to the u32 range (NaN gives 0); the low
\* tbits bits of the result.
VcvtaqU32AsT(x, tbits) ==
    IF CIsNaN(x) THEN 0
    ELSE IF x[1] = "inf" THEN (IF x[2] > 0 THEN Pow2(tbits) - 1 ELSE 0)
    ELSE IF x[2] <= 0 THEN 0
    ELSE AsT((2 * x[2] + CDen) \div (2 * CDen), tbits)

\* `f32 as T` for an unsigned integer T of tbits bits: truncates toward
\* zero and saturates; NaN gives 0.
F32AsT(x, tbits) ==
    IF CIsNaN(x) THEN 0
    ELSE IF x[1] = "inf" THEN (IF x[2] > 0 THEN Pow2(tbits) - 1 ELSE 0)
    ELSE IF x[2] <= 0 THEN 0
    ELSE Min(x[2] \div CDen, Pow2(tbits) - 1)

\* value_scale = ((1 << BIT_DEPTH) - 1) as f32
ValueScale(bit_depth) == CNum((Pow2(bit_depth) - 1) * CDen)

\* TransformLut3x4::transform_chunk, T::FINITE: the sample stored for the
\* interpolated value v.
Lut3x4Store(v, tbits, bit_depth) ==
    LET value_scale == ValueScale(bit_depth)
        r == CAdd(CMul(v, value_scale), CNum(CDen \div 2))
    IN  [v |-> r, sample |-> F32AsT(F32Max(F32Min(r, value_scale), CNum(0)), tbits)]

\* The blend of the two cube results: hp = a0 * (1 - t); v = b0 * t + hp.
Lut4x3Blend(a0, b0, t) ==
    CAdd(CMul(b0, t), CMul(a0, CSub(CNum(CDen), t)))

\* TransformLut4XyzToRgbAvx::transform_chunk, T::FINITE: the sample stored
\* for the cube results a0, b0 and the weight t.
AvxLut4x3Store(a0, b0, t, tbits, bit_depth) ==
    LET value_scale == ValueScale(bit_depth)
        v0 == Lut4x3Blend(a0, b0, t)
        v1 == MaxPs(v0, CNum(0))
        v2 == CMul(v1, value_scale)
        v3 == MinPs(v2, value_scale)
    IN  [v |-> v0, sample |-> AsT(CvtPsEpi32(v3), tbits)]

\* TransformLut4XyzToRgbNeon::transform_chunk, T::FINITE.
NeonLut4x3Store(a0, b0, t, tbits, bit_depth) ==
    LET value_scale == ValueScale(bit_depth)
        v0 == Lut4x3Blend(a0, b0, t)
        v1 == CMul(v0, value_scale)
        v2 == VminqF32(v1, value_scale)
    IN  [v |-> v0, sample |-> VcvtaqU32AsT(v2, tbits)]

(***************************************************************************)
(* The AVX interpolants.  One channel of a cube is a sequence of GRID^3    *)
(* integers below 2^24 in magnitude, fetched as f32 lanes.  Every value is *)
(* the f32 the code holds: [m, e] is m / 2^e with a signed significand     *)
(* |m| < 2^24.  Each subtraction and addition that forms a delta is        *)
(* rounded on its own, the weights are in * scale - x, a product of two    *)
(* weights is rounded once, and every mla is one fused multiply-add; all   *)
(* round to nearest, ties to even.  Exponents stay in the normal range.    *)
(* An AvxVector is the pair of its two 128-bit halves.                     *)
(***************************************************************************)
\* Fetcher::fetch of TetrahedralAvxSseFetchVector: the lane at
\* x * GRID^2 + y * GRID + z.
Fetch(cube, grid, x, y, z) == cube[x * grid * grid + y * grid + z + 1]

\* An offset counted in f32 lanes rather than in SseAlignedF32 entries.
FetchOffset_FloatStride(grid, x, y, z) == 4 * (x * (grid * grid) + y * grid + z)

\* The offset Fetcher::fetch computes in u32 from the i32 corners.
FetchOffset(grid, x, y, z) == x * (grid * grid) + y * grid + z

\* A lower corner rounded to the nearest grid point.
GridLo_Nearest(in, grid) == (2 * in * (grid - 1) + LUT_SAMPLING) \div (2 * LUT_SAMPLING)

\* Lower corner and upper corner of one input sample:
\* x = in * (GRID_SIZE - 1) / 255 in i32 and
\* x_n = rounding_div_ceil(in * (GRID_SIZE - 1), 255).
GridLo(in, grid) == (in * (grid - 1)) \div LUT_SAMPLING
GridHi(in, grid) == rounding_div_ceil(in * (grid - 1), LUT_SAMPLING)

\* The weight as the f32 the code holds: scale = (GRID_SIZE - 1) as f32 *
\* (1.0 / 255.0), rx = in as f32 * scale - x as f32.
SCALE == F32Div(1, LUT_SAMPLING)
GridScaleF32(grid) == F32MulInt(SCALE, grid - 1)
F32OfNum(d) == [m |-> d.num, e |-> d.e]
GridWeightF32(in, grid) ==
    F32OfNum(F32SubInt(F32MulInt(GridScaleF32(grid), in), GridLo(in, grid)))

\* a >= b and a > b on two f32 weights m / 2^e, as the branches of the
\* interpolants compare them: the smaller exponent is brought to the larger
\* one (a weight is below 2^24 / 2^e, so 24 places apart only zero decides).
F32Geq(a, b) ==
    IF a.e <= b.e
    THEN IF b.e - a.e >= 24 THEN a.m > 0 \/ b.m <= 0
         ELSE a.m >= (b.m + Pow2(b.e - a.e) - 1) \div Pow2(b.e - a.e)
    ELSE IF a.e - b.e >= 24 THEN b.m <= 0 /\ (a.m >= 0 \/ b.m < 0)
         ELSE a.m \div Pow2(a.e - b.e) >= b.m
F32Gt(a, b) == ~F32Geq(b, a)

\* The number of bits of 0 <= n < 2^8, and of 0 <= n < 2^24.
BitLen8(n) == CHOOSE k \in 0..8 : n < Pow2(k) /\ (k = 0 \/ n >= Pow2(k - 1))
BitLen(n) ==
    IF n >= Pow2(16) THEN 16 + BitLen8(n \div Pow2(16))
    ELSE IF n >= Pow2(8) THEN 8 + BitLen8(n \div Pow2(8))
    ELSE BitLen8(n)

\* m / 2^e with |m| < 2^24 brought up by k places.
F32Raise(x, k) == [m |-> x.m * Pow2(k), e |-> x.e + k]
\* The same f32 with its significand brought to 2^23 <= |m| < 2^24.
F32Normal(x) ==
    IF x.m = 0 THEN F32Zero
    ELSE IF Abs(x.m) >= Pow2(23) THEN x
    ELSE F32Raise(x, 24 - BitLen(Abs(x.m)))
Sgn(n) == IF n < 0 THEN 0 - 1 ELSE 1

\* Unsigned integers below 2^96 as four 24-bit limbs, least first: the limbs
\* moved up by q limbs, the shift left by d places, the sum, the difference
\* of x >= y, x >= y, and the number of bits.
Limb == Pow2(24)
BigUp(y, q) == [i \in 1..4 |-> IF i > q THEN y[i - q] ELSE 0]
BigShl(x, d) ==
    BigUp([i \in 1..4 |-> (x[i] % Pow2(24 - (d % 24))) * Pow2(d % 24)
                            + (IF i > 1 THEN x[i - 1] \div Pow2(24 - (d % 24)) ELSE 0)],
          d \div 24)
BigCarry(s1, s2, s3, s4) ==
    <<s1 % Limb,
      (s2 + s1 \div Limb) % Limb,
      (s3 + (s2 + s1 \div Limb) \div Limb) % Limb,
      s4 + (s3 + (s2 + s1 \div Limb) \div Limb) \div Limb>>
BigAdd(x, y) == BigCarry(x[1] + y[1], x[2] + y[2], x[3] + y[3], x[4] + y[4])
\* The difference as the sum of x, the complement of y and one, less 2^96.
BigSub(x, y) ==
    BigCarry(x[1] + (Limb - 1 - y[1]) + 1, x[2] + (Limb - 1 - y[2]),
             x[3] + (Limb - 1 - y[3]), x[4] - y[4] - 1)
BigGeq(x, y) ==
    IF x[4] # y[4] THEN x[4] > y[4]
    ELSE IF x[3] # y[3] THEN x[3] > y[3]
    ELSE IF x[2] # y[2] THEN x[2] > y[2]
    ELSE x[1] >= y[1]
BigBits(x) ==
    IF x[4] # 0 THEN 72 + BitLen(x[4])
    ELSE IF x[3] # 0 THEN 48 + BitLen(x[3])
    ELSE IF x[2] # 0 THEN 24 + BitLen(x[2])
    ELSE BitLen(x[1])
\* The 48-bit product of two 24-bit significands, from 12-bit halves: mid
\* is the sum of the two cross products.
BigMulMid(am, bm, mid) ==
    BigCarry((am % 4096) * (bm % 4096) + (mid % 4096) * 4096,
             (am \div 4096) * (bm \div 4096) + mid \div 4096, 0, 0)
BigMul(am, bm) ==
    BigMulMid(am, bm, (am \div 4096) * (bm % 4096) + (am % 4096) * (bm \div 4096))

\* sign * q / 2^e for the 24 leading bits q of a sum, raised by one when the
\* bits below them are more than half a unit (guard and sticky), or exactly
\* half a unit under an odd q.
F32Signed(sign, r) == [m |-> sign * r.m, e |-> r.e]
F32Carry(sign, q, guard, sticky, e) ==
    F32Signed(sign, F32Norm(q + (IF guard /\ (sticky \/ q % 2 = 1) THEN 1 ELSE 0), e))
\* sign * x / 2^E rounded to f32, s = BigBits(x) - 24 being the number of
\* bits of x below the 24 leading ones.
F32RoundAt(sign, x, E, s) ==
    IF s = 0 - 24 THEN F32Zero
    ELSE IF s <= 0 THEN [m |-> sign * x[1] * Pow2(0 - s), e |-> E - s]
    ELSE F32Carry(sign,
                  x[s \div 24 + 1] \div Pow2(s % 24)
                    + (IF s \div 24 < 3
                       THEN (x[s \div 24 + 2] % Pow2(s % 24)) * Pow2(24 - (s % 24))
                       ELSE 0),
                  (x[(s - 1) \div 24 + 1] \div Pow2((s - 1) % 24)) % 2 = 1,
                  \/ x[(s - 1) \div 24 + 1] % Pow2((s - 1) % 24) # 0
                  \/ \E i \in 1..((s - 1) \div 24) : x[i] # 0,
                  E - s)
F32Round(sign, x, E) == F32RoundAt(sign, x, E, BigBits(x) - 24)

\* sx * X / 2^E + sy * Y / 2^E rounded to f32.
FmaSum(sx, X, sy, Y, E) ==
    F32Round(IF sx = sy \/ BigGeq(X, Y) THEN sx ELSE sy,
             IF sx = sy THEN BigAdd(X, Y)
             ELSE IF BigGeq(X, Y) THEN BigSub(X, Y) ELSE BigSub(Y, X),
             E)
\* ps * P / 2^ep + C rounded to f32, for a normal C that lies dP = C.e - ep
\* places below the unit of the product P: the operand of the smaller unit
\* keeps its place and the other one is shifted up to it.  A C more than 24
\* places below the unit of the product only decides to which side of the
\* product the sum falls, and a product 50 places below the unit of C leaves
\* C.
FmaAlign(ps, P, ep, C, dP) ==
    IF C.m = 0 THEN F32Round(ps, P, ep)
    ELSE IF dP <= 0 - 50 THEN C
    ELSE FmaSum(IF dP >= 0 THEN ps ELSE Sgn(C.m),
                BigShl(IF dP >= 0 THEN P ELSE <<Abs(C.m), 0, 0, 0>>,
                       IF dP >= 25 THEN 2 ELSE Abs(dP)),
                IF dP >= 0 THEN Sgn(C.m) ELSE ps,
                IF dP >= 25 THEN <<1, 0, 0, 0>>
                ELSE IF dP >= 0 THEN <<Abs(C.m), 0, 0, 0>> ELSE P,
                IF dP >= 25 THEN ep + 2 ELSE IF dP >= 0 THEN C.e ELSE ep)
FmaNormal(A, B, C) ==
    FmaAlign(Sgn(A.m) * Sgn(B.m), BigMul(Abs(A.m), Abs(B.m)), A.e + B.e, C,
             C.e - (A.e + B.e))
\* _mm_fmadd_ps(a, b, c) on one lane: a * b + c as the exact sum of the
\* 48-bit product and c, rounded once to nearest, ties to even.
mm_fmadd_ps(a, b, c) ==
    IF a.m = 0 \/ b.m = 0 THEN F32Normal(c)
    ELSE FmaNormal(F32Normal(a), F32Normal(b), F32Normal(c))

\* a * b on two f32: the product rounded once.
F32Mul(a, b) == mm_fmadd_ps(a, b, F32Zero)
\* n as f32 for an i32 n: exact below 2^24 in magnitude, rounded above.
F32Int(n) ==
    IF Abs(n) < Limb THEN [m |-> n, e |-> 0]
    ELSE F32Round(Sgn(n), <<Abs(n) % Limb, Abs(n) \div Limb, 0, 0>>, 0)

\* self.mla(b, c) = _mm_fmadd_ps(b.v, c.v, self.v).
Mla(acc, b, c) == mm_fmadd_ps(b, c, acc)
\* n / 2^E rounded to f32 for an i32 n.
F32Scaled(n, E) ==
    IF Abs(n) < Limb THEN F32Normal([m |-> n, e |-> E])
    ELSE F32Round(Sgn(n), <<Abs(n) % Limb, Abs(n) \div Limb, 0, 0>>, E)
\* a + s * b for s = 1 or s = -1, rounded once to nearest, ties to even:
\* operands whose units are at most six places apart are added as integers
\* in the smaller unit (below 2^31 in magnitude), the others as the fused
\* multiply-add s * b + a.
mm_add_ps_signed(a, s, b) ==
    IF a.e >= b.e /\ a.e - b.e <= 6
    THEN F32Scaled(a.m + s * b.m * Pow2(a.e - b.e), a.e)
    ELSE IF b.e > a.e /\ b.e - a.e <= 6
    THEN F32Scaled(a.m * Pow2(b.e - a.e) + s * b.m, b.e)
    ELSE mm_fmadd_ps(b, F32Int(s), a)
\* AvxVectorSse - AvxVectorSse = _mm_sub_ps and AvxVectorSse + AvxVectorSse =
\* _mm_add_ps on one lane: the exact difference, the exact sum, rounded once.
Sub(a, b) == mm_add_ps_signed(a, 0 - 1, b)
Add(a, b) == mm_add_ps_signed(a, 1, b)

\* AvxVector: from_sse, lane-wise sub (_mm256_sub_ps), add (_mm256_add_ps)
\* and mla (_mm256_fmadd_ps), From<f32>.
FromSse(lo, hi) == <<lo, hi>>
VSub(a, b) == <<Sub(a[1], b[1]), Sub(a[2], b[2])>>
VAdd(a, b) == <<Add(a[1], b[1]), Add(a[2], b[2])>>
VMla(acc, b, c) == <<Mla(acc[1], b[1], c[1]), Mla(acc[2], b[2], c[2])>>
VFrom(v) == <<v, v>>

\* The lane of the table at a lattice point as the f32 the table holds.
Lane(cube, grid, x, y, z) == F32Int(Fetch(cube, grid, x, y, z))

\* The first branch taken whatever the weights.
TetrahedralDeltas_FirstBranch(cube, grid, in_r, in_g, in_b) ==
    [branch |-> 1,
     c0 |-> Lane(cube, grid, GridLo(in_r, grid), GridLo(in_g, grid), GridLo(in_b, grid)),
     c1 |-> Sub(Lane(cube, grid, GridHi(in_r, grid), GridLo(in_g, grid), GridLo(in_b, grid)),
                Lane(cube, grid, GridLo(in_r, grid), GridLo(in_g, grid), GridLo(in_b, grid))),
     c2 |-> Sub(Lane(cube, grid, GridHi(in_r, grid), GridHi(in_g, grid), GridLo(in_b, grid)),
                Lane(cube, grid, GridHi(in_r, grid), GridLo(in_g, grid), GridLo(in_b, grid))),
     c3 |-> Sub(Lane(cube, grid, GridHi(in_r, grid), GridHi(in_g, grid), GridHi(in_b, grid)),
                Lane(cube, grid, GridHi(in_r, grid), GridHi(in_g, grid), GridLo(in_b, grid))),
     rx |-> GridWeightF32(in_r, grid), ry |-> GridWeightF32(in_g, grid),
     rz |-> GridWeightF32(in_b, grid)]

\* The branches of TetrahedralAvxFma::interpolate on the corners x, y, z,
\* x_n, y_n, z_n and the weights rx, ry, rz: c0, the three deltas of the
\* branch taken (each one f32 subtraction), the number of that branch in the
\* order of the code, and the weights.
TetrahedralBranch(cube, grid, x, y, z, x_n, y_n, z_n, rx, ry, rz) ==
    LET r(a, b, c) == Lane(cube, grid, a, b, c)
        c0 == r(x, y, z)
        out(n, c1, c2, c3) ==
            [branch |-> n, c0 |-> c0, c1 |-> c1, c2 |-> c2, c3 |-> c3,
             rx |-> rx, ry |-> ry, rz |-> rz]
    IN  IF F32Geq(rx, ry) THEN
            IF F32Geq(ry, rz) THEN
                out(1, Sub(r(x_n, y, z), c0),
                       Sub(r(x_n, y_n, z), r(x_n, y, z)),
                       Sub(r(x_n, y_n, z_n), r(x_n, y_n, z)))
            ELSE IF F32Geq(rx, rz) THEN
                out(2, Sub(r(x_n, y, z), c0),
                       Sub(r(x_n, y_n, z_n), r(x_n, y, z_n)),
                       Sub(r(x_n, y, z_n), r(x_n, y, z)))
            ELSE
                out(3, Sub(r(x_n, y, z_n), r(x, y, z_n)),
                       Sub(r(x_n, y_n, z_n), r(x_n, y, z_n)),
                       Sub(r(x, y, z_n), c0))
        ELSE IF F32Geq(rx, rz) THEN
            out(4, Sub(r(x_n, y_n, z), r(x, y_n, z)),
                   Sub(r(x, y_n, z), c0),
                   Sub(r(x_n, y_n, z_n), r(x_n, y_n, z)))
        ELSE IF F32Geq(ry, rz) THEN
            out(5, Sub(r(x_n, y_n, z_n), r(x, y_n, z_n)),
                   Sub(r(x, y_n, z), c0),
                   Sub(r(x, y_n, z_n), r(x, y_n, z)))
        ELSE
            out(6, Sub(r(x_n, y_n, z_n), r(x, y_n, z_n)),
                   Sub(r(x, y_n, z_n), r(x, y, z_n)),
                   Sub(r(x, y, z_n), c0))

\* TetrahedralAvxFma::interpolate up to the branch, for one pixel.
TetrahedralDeltas(cube, grid, in_r, in_g, in_b) ==
    TetrahedralBranch(cube, grid,
                      GridLo(in_r, grid), GridLo(in_g, grid), GridLo(in_b, grid),
                      GridHi(in_r, grid), GridHi(in_g, grid), GridHi(in_b, grid),
                      GridWeightF32(in_r, grid), GridWeightF32(in_g, grid),
                      GridWeightF32(in_b, grid))

\* c0.mla(c1, rx).mla(c2, ry).mla(c3, rz)
TetrahedralSum(d) == Mla(Mla(Mla(d.c0, d.c1, d.rx), d.c2, d.ry), d.c3, d.rz)

\* TetrahedralAvxFma::interpolate.
TetrahedralAvxFma(cube, grid, in_r, in_g, in_b) ==
    TetrahedralSum(TetrahedralDeltas(cube, grid, in_r, in_g, in_b))

\* The branches of PyramidalAvxFma::interpolate: c0, the deltas c1..c4 of the
\* branch taken, the weight w3 of that branch, the number of the branch, and
\* the weights dr, dg, db.  c4 = c0 - a - b + c is two f32 subtractions and
\* one f32 addition from the left, each rounded.
PyramidalBranch(cube, grid, x, y, z, x_n, y_n, z_n, dr, dg, db) ==
    LET r(a, b, c) == Lane(cube, grid, a, b, c)
        c0 == r(x, y, z)
        out(n, c1, c2, c3, c4, w3) ==
            [branch |-> n, c0 |-> c0, c1 |-> c1, c2 |-> c2, c3 |-> c3, c4 |-> c4,
             w3 |-> w3, dr |-> dr, dg |-> dg, db |-> db]
    IN  IF F32Gt(dr, db) /\ F32Gt(dg, db) THEN
            LET x0 == r(x_n, y_n, z_n)  x1 == r(x_n, y_n, z)
                x2 == r(x_n, y, z)  x3 == r(x, y_n, z)
            IN  out(1, Sub(x0, x1), Sub(x2, c0), Sub(x3, c0),
                    Add(Sub(Sub(c0, x3), x2), x1), F32Mul(dr, dg))
        ELSE IF F32Gt(db, dr) /\ F32Gt(dg, dr) THEN
            LET x0 == r(x, y, z_n)  x1 == r(x_n, y_n, z_n)
                x2 == r(x, y_n, z_n)  x3 == r(x, y_n, z)
            IN  out(2, Sub(x0, c0), Sub(x1, x2), Sub(x3, c0),
                    Add(Sub(Sub(c0, x3), x0), x2), F32Mul(dg, db))
        ELSE
            LET x0 == r(x, y, z_n)  x1 == r(x_n, y, z)
                x2 == r(x_n, y, z_n)  x3 == r(x_n, y_n, z_n)
            IN  out(3, Sub(x0, c0), Sub(x1, c0), Sub(x3, x2),
                    Add(Sub(Sub(c0, x1), x0), x2), F32Mul(db, dr))

\* PyramidalAvxFma::interpolate up to the sum, for one pixel.
PyramidalDeltas(cube, grid, in_r, in_g, in_b) ==
    PyramidalBranch(cube, grid,
                    GridLo(in_r, grid), GridLo(in_g, grid), GridLo(in_b, grid),
                    GridHi(in_r, grid), GridHi(in_g, grid), GridHi(in_b, grid),
                    GridWeightF32(in_r, grid), GridWeightF32(in_g, grid),
                    GridWeightF32(in_b, grid))

\* w0 = db, w1 = dr, w2 = dg and
\* c0.mla(c1, w0).mla(c2, w1).mla(c3, w2).mla(c4, w3).
PyramidalSum(d) ==
    Mla(Mla(Mla(Mla(d.c0, d.c1, d.db), d.c2, d.dr), d.c3, d.dg), d.c4, d.w3)

\* The same sum with the first-order weights taken in the order dr, dg, db.
PyramidalSum_WeightsInOrder(d) ==
    Mla(Mla(Mla(Mla(d.c0, d.c1, d.dr), d.c2, d.dg), d.c3, d.db), d.c4, d.w3)

\* The pyramidal interpolant with the first-order weights taken in the order
\* dr, dg, db.
PyramidalAvxFma_WeightsInOrder(cube, grid, in_r, in_g, in_b) ==
    PyramidalSum_WeightsInOrder(PyramidalDeltas(cube, grid, in_r, in_g, in_b))

\* PyramidalAvxFma::interpolate.
PyramidalAvxFma(cube, grid, in_r, in_g, in_b) ==
    PyramidalSum(PyramidalDeltas(cube, grid, in_r, in_g, in_b))

\* The branches of PrismaticAvxFma::interpolate: c0, the deltas c1..c5 of the
\* branch taken, the number of the branch, and the weights dr, dg, db.  c4
\* and c5 are two f32 subtractions and one f32 addition from the left, each
\* rounded.
PrismaticBranch(cube, grid, x, y, z, x_n, y_n, z_n, dr, dg, db) ==
    LET r(a, b, c) == Lane(cube, grid, a, b, c)
        c0 == r(x, y, z)
        out(n, c1, c2, c3, c4, c5) ==
            [branch |-> n, c0 |-> c0, c1 |-> c1, c2 |-> c2, c3 |-> c3, c4 |-> c4,
             c5 |-> c5, dr |-> dr, dg |-> dg, db |-> db]
    IN  IF F32Gt(db, dr) THEN
            LET x0 == r(x, y, z_n)  x1 == r(x_n, y, z_n)  x2 == r(x, y_n, z)
                x3 == r(x, y_n, z_n)  x4 == r(x_n, y_n, z_n)
            IN  out(1, Sub(x0, c0), Sub(x1, x0), Sub(x2, c0),
                    Add(Sub(Sub(c0, x2), x0), x3),
                    Add(Sub(Sub(x0, x3), x1), x4))
        ELSE
            LET x0 == r(x_n, y, z)  x1 == r(x_n, y, z_n)  x2 == r(x, y_n, z)
                x3 == r(x_n, y_n, z)  x4 == r(x_n, y_n, z_n)
            IN  out(2, Sub(x1, x0), Sub(x0, c0), Sub(x2, c0),
                    Add(Sub(Sub(x0, x3), x1), x4),
                    Add(Sub(Sub(c0, x2), x0), x3))

\* PrismaticAvxFma::interpolate up to the sum, for one pixel.
PrismaticDeltas(cube, grid, in_r, in_g, in_b) ==
    PrismaticBranch(cube, grid,
                    GridLo(in_r, grid), GridLo(in_g, grid), GridLo(in_b, grid),
                    GridHi(in_r, grid), GridHi(in_g, grid), GridHi(in_b, grid),
                    GridWeightF32(in_r, grid), GridWeightF32(in_g, grid),
                    GridWeightF32(in_b, grid))

\* w0 = db, w1 = dr, w2 = dg, w3 = dg * db, w4 = dr * dg and
\* c0.mla(c1, w0).mla(c2, w1).mla(c3, w2).mla(c4, w3).mla(c5, w4).
PrismaticSum(d) ==
    Mla(Mla(Mla(Mla(Mla(d.c0, d.c1, d.db), d.c2, d.dr), d.c3, d.dg),
            d.c4, F32Mul(d.dg, d.db)),
        d.c5, F32Mul(d.dr, d.dg))

\* PrismaticAvxFma::interpolate.
PrismaticAvxFma(cube, grid, in_r, in_g, in_b) ==
    PrismaticSum(PrismaticDeltas(cube, grid, in_r, in_g, in_b))

\* The branches of PrismaticAvxFmaDouble::interpolate, the deltas as vectors
\* over the two tables: r0 fetches from cube0, r1 from cube1, and both
\* halves of c0 are fetched with r0.
PrismaticBranchDouble(cube0, cube1, grid, x, y, z, x_n, y_n, z_n, dr, dg, db) ==
    LET r0(a, b, c) == Lane(cube0, grid, a, b, c)
        r1(a, b, c) == Lane(cube1, grid, a, b, c)
        rr(a, b, c) == FromSse(r0(a, b, c), r1(a, b, c))
        c0_0 == r0(x, y, z)
        c0_1 == r0(x, y, z)
        c0 == FromSse(c0_0, c0_1)
        out(n, c1, c2, c3, c4, c5) ==
            [branch |-> n, c0 |-> c0, c1 |-> c1, c2 |-> c2, c3 |-> c3, c4 |-> c4,
             c5 |-> c5, dr |-> dr, dg |-> dg, db |-> db]
    IN  IF F32Gt(db, dr) THEN
            LET x0 == rr(x, y, z_n)  x1 == rr(x_n, y, z_n)  x2 == rr(x, y_n, z)
                x3 == rr(x, y_n, z_n)  x4 == rr(x_n, y_n, z_n)
            IN  out(1, VSub(x0, c0), VSub(x1, x0), VSub(x2, c0),
                    VAdd(VSub(VSub(c0, x2), x0), x3),
                    VAdd(VSub(VSub(x0, x3), x1), x4))
        ELSE
            LET x0 == rr(x_n, y, z)  x1 == rr(x_n, y, z_n)  x2 == rr(x, y_n, z)
                x3 == rr(x_n, y_n, z)  x4 == rr(x_n, y_n, z_n)
            IN  out(2, VSub(x1, x0), VSub(x0, c0), VSub(x2, c0),
                    VAdd(VSub(VSub(x0, x3), x1), x4),
                    VAdd(VSub(VSub(c0, x2), x0), x3))

\* The sum of PrismaticAvxFmaDouble::interpolate on the two halves.
PrismaticSumDouble(d) ==
    VMla(VMla(VMla(VMla(VMla(d.c0, d.c1, VFrom(d.db)), d.c2, VFrom(d.dr)),
                   d.c3, VFrom(d.dg)),
              d.c4, VFrom(F32Mul(d.dg, d.db))),
         d.c5, VFrom(F32Mul(d.dr, d.dg)))

\* PrismaticAvxFmaDouble::interpolate.
PrismaticAvxFmaDouble(cube0, cube1, grid, in_r, in_g, in_b) ==
    PrismaticSumDouble(
        PrismaticBranchDouble(cube0, cube1, grid,
                              GridLo(in_r, grid), GridLo(in_g, grid), GridLo(in_b, grid),
                              GridHi(in_r, grid), GridHi(in_g, grid), GridHi(in_b, grid),
                              GridWeightF32(in_r, grid), GridWeightF32(in_g, grid),
                              GridWeightF32(in_b, grid)))

\* The branches of PyramidAvxFmaDouble::interpolate, the deltas as vectors
\* over the two tables.
PyramidBranchDouble(cube0, cube1, grid, x, y, z, x_n, y_n, z_n, dr, dg, db) ==
    LET rr(a, b, c) == FromSse(Lane(cube0, grid, a, b, c), Lane(cube1, grid, a, b, c))
        c0 == rr(x, y, z)
        out(n, c1, c2, c3, c4, w3) ==
            [branch |-> n, c0 |-> c0, c1 |-> c1, c2 |-> c2, c3 |-> c3, c4 |-> c4,
             w3 |-> w3, dr |-> dr, dg |-> dg, db |-> db]
    IN  IF F32Gt(dr, db) /\ F32Gt(dg, db) THEN
            LET x0 == rr(x_n, y_n, z_n)  x1 == rr(x_n, y_n, z)
                x2 == rr(x_n, y, z)  x3 == rr(x, y_n, z)
            IN  out(1, VSub(x0, x1), VSub(x2, c0), VSub(x3, c0),
                    VAdd(VSub(VSub(c0, x3), x2), x1), F32Mul(dr, dg))
        ELSE IF F32Gt(db, dr) /\ F32Gt(dg, dr) THEN
            LET x0 == rr(x, y, z_n)  x1 == rr(x_n, y_n, z_n)
                x2 == rr(x, y_n, z_n)  x3 == rr(x, y_n, z)
            IN  out(2, VSub(x0, c0), VSub(x1, x2), VSub(x3, c0),
                    VAdd(VSub(VSub(c0, x3), x0), x2), F32Mul(dg, db))
        ELSE
            LET x0 == rr(x, y, z_n)  x1 == rr(x_n, y, z)
                x2 == rr(x_n, y, z_n)  x3 == rr(x_n, y_n, z_n)
            IN  out(3, VSub(x0, c0), VSub(x1, c0), VSub(x3, x2),
                    VAdd(VSub(VSub(c0, x1), x0), x2), F32Mul(db, dr))

\* The sum of PyramidAvxFmaDouble::interpolate on the two halves.
PyramidSumDouble(d) ==
    VMla(VMla(VMla(VMla(d.c0, d.c1, VFrom(d.db)), d.c2, VFrom(d.dr)), d.c3, VFrom(d.dg)),
         d.c4, VFrom(d.w3))

\* PyramidAvxFmaDouble::interpolate.
PyramidAvxFmaDouble(cube0, cube1, grid, in_r, in_g, in_b) ==
    PyramidSumDouble(
        PyramidBranchDouble(cube0, cube1, grid,
                            GridLo(in_r, grid), GridLo(in_g, grid), GridLo(in_b, grid),
                            GridHi(in_r, grid), GridHi(in_g, grid), GridHi(in_b, grid),
                            GridWeightF32(in_r, grid), GridWeightF32(in_g, grid),
                            GridWeightF32(in_b, grid)))

\* The branches of TetrahedralAvxFmaDouble::interpolate: c0 and the deltas
\* as vectors over the two tables, the number of the branch taken, and the
\* weights.
TetrahedralBranchDouble(cube0, cube1, grid, x, y, z, x_n, y_n, z_n, rx, ry, rz) ==
    LET rv(a, b, c) == FromSse(Lane(cube0, grid, a, b, c), Lane(cube1, grid, a, b, c))
        c0 == rv(x, y, z)
        out(n, c1, c2, c3) ==
            [branch |-> n, c0 |-> c0, c1 |-> c1, c2 |-> c2, c3 |-> c3,
             rx |-> rx, ry |-> ry, rz |-> rz]
    IN  IF F32Geq(rx, ry) THEN
            IF F32Geq(ry, rz) THEN
                out(1, VSub(rv(x_n, y, z), c0),
                       VSub(rv(x_n, y_n, z), rv(x_n, y, z)),
                       VSub(rv(x_n, y_n, z_n), rv(x_n, y_n, z)))
            ELSE IF F32Geq(rx, rz) THEN
                out(2, VSub(rv(x_n, y, z), c0),
                       VSub(rv(x_n, y_n, z_n), rv(x_n, y, z_n)),
                       VSub(rv(x_n, y, z_n), rv(x_n, y, z)))
            ELSE
                out(3, VSub(rv(x_n, y, z_n), rv(x, y, z_n)),
                       VSub(rv(x_n, y_n, z_n), rv(x_n, y, z_n)),
                       VSub(rv(x, y, z_n), c0))
        ELSE IF F32Geq(rx, rz) THEN
            out(4, VSub(rv(x_n, y_n, z), rv(x, y_n, z)),
                   VSub(rv(x, y_n, z), c0),
                   VSub(rv(x_n, y_n, z_n), rv(x_n, y_n, z)))
        ELSE IF F32Geq(ry, rz) THEN
            out(5, VSub(rv(x_n, y_n, z_n), rv(x, y_n, z_n)),
                   VSub(rv(x, y_n, z), c0),
                   VSub(rv(x, y_n, z_n), rv(x, y_n, z)))
        ELSE
            out(6, VSub(rv(x_n, y_n, z_n), rv(x, y_n, z_n)),
                   VSub(rv(x, y_n, z_n), rv(x, y, z_n)),
                   VSub(rv(x, y, z_n), c0))

\* TetrahedralAvxFmaDouble::interpolate up to the branch, for one pixel.
TetrahedralDeltasDouble(cube0, cube1, grid, in_r, in_g, in_b) ==
    TetrahedralBranchDouble(cube0, cube1, grid,
                            GridLo(in_r, grid), GridLo(in_g, grid), GridLo(in_b, grid),
                            GridHi(in_r, grid), GridHi(in_g, grid), GridHi(in_b, grid),
                            GridWeightF32(in_r, grid), GridWeightF32(in_g, grid),
                            GridWeightF32(in_b, grid))

\* c0.mla(c1, rx).mla(c2, ry).mla(c3, rz) on the two halves.
TetrahedralSumDouble(d) ==
    VMla(VMla(VMla(d.c0, d.c1, VFrom(d.rx)), d.c2, VFrom(d.ry)), d.c3, VFrom(d.rz))

\* TetrahedralAvxFmaDouble::interpolate.
TetrahedralAvxFmaDouble(cube0, cube1, grid, in_r, in_g, in_b) ==
    TetrahedralSumDouble(TetrahedralDeltasDouble(cube0, cube1, grid, in_r, in_g, in_b))

\* inter3_sse of the single-table and of the double-table interpolant that
\* InterpolationMethod m selects.
Inter3Single(m, cube, grid, in_r, in_g, in_b) ==
    CASE m = "Tetrahedral" -> TetrahedralAvxFma(cube, grid, in_r, in_g, in_b)
      [] m = "Pyramid" -> PyramidalAvxFma(cube, grid, in_r, in_g, in_b)
      [] m = "Prism" -> PrismaticAvxFma(cube, grid, in_r, in_g, in_b)
Inter3Double(m, cube0, cube1, grid, in_r, in_g, in_b) ==
    CASE m = "Tetrahedral" -> TetrahedralAvxFmaDouble(cube0, cube1, grid, in_r, in_g, in_b)
      [] m = "Pyramid" -> PyramidAvxFmaDouble(cube0, cube1, grid, in_r, in_g, in_b)
      [] m = "Prism" -> PrismaticAvxFmaDouble(cube0, cube1, grid, in_r, in_g, in_b)

(***************************************************************************)
(* Inputs of the executor calls                                            *)
(***************************************************************************)
\* Buffer lengths 0..MaxLen are tried in every (src, dst) combination.
MaxLen == 9
\* Long buffers hold up to MaxStrips full strips plus a remainder.
MaxStrips == 2

Layouts8 == {"Rgb8", "Rgba8", "Gray8", "GrayAlpha8"}
Layouts16 == {"Rgb16", "Rgba16", "Gray16", "GrayAlpha16"}

SmallLens == 0..MaxLen
\* Pixel counts of the long buffers: q full strips and a remainder.
Remainders == {0, 1, 75}
BigCounts == {q * STRIP + r : q \in 0..MaxStrips, r \in Remainders}

Seeds == {5, 1000}
Sample(seed, vmod, i) == (seed + 37 * i) % vmod
SrcBuf(len, seed, vmod) == [i \in 1..len |-> Sample(seed, vmod, i)]
\* Alpha samples range over the whole storage type, whatever the bit depth
\* of the colour samples.
AlphaSample(seed, tbits, p) ==
    LET m == Pow2(tbits)
        k == (seed + p) % 5
    IN  CASE k = 0 -> m - 1
          [] k = 1 -> (seed * 41 + 9973 * p) % m
          [] k = 2 -> 0
          [] k = 3 -> m \div 2
          [] OTHER -> 1
\* A source slice of pixels of layout cn: colour samples below vmod, alpha
\* samples any value of the storage type.
PixelBuf(cn, tbits, len, seed, vmod) ==
    [i \in 1..len |->
        IF has_alpha(cn) /\ (i - 1) % channels(cn) = a_i(cn)
        THEN AlphaSample(seed, tbits, (i - 1) \div channels(cn))
        ELSE Sample(seed, vmod, i)]
\* What the destination holds before the call.
DstFill == {7}
DstBuf(len, fill) == [i \in 1..len |-> fill]
ZeroCounts(len) == [i \in 1..len |-> 0]

\* Sample ranges: data of the executor's bit depth, and every value of the
\* storage type.
SampleMods(cfg) == {cfg.LINEAR_CAP, Pow2(cfg.T)}

\* The Gray executors the factory builds (8-bit and 10-bit entry points).
GrayCfgs ==
    {MakeGrayToRgb(8, l, 256, 8, 8192) : l \in Layouts8}
        \cup {MakeGrayToRgb(16, l, 1024, 10, 8192) : l \in Layouts16}

GrayInputs ==
    [e : [cfg : GrayCfgs, curve : Curves], lens : SmallLens \X SmallLens,
     seed : Seeds, vmod : {256, 1024, 65536}, fill : DstFill]
    \cup
    {[e |-> [cfg |-> c, curve |-> "square"],
      lens |-> <<n, n * channels(LayoutFrom(c.LAYOUT))>>,
      seed |-> 5, vmod |-> 256, fill |-> fl] :
        c \in {g \in GrayCfgs : g.T = 8}, n \in BigCounts, fl \in DstFill}

GrayTransformBegin ==
    /\ pc = "idle"
    /\ \E in \in GrayInputs :
        /\ in.vmod \in SampleMods(in.e.cfg)
        /\ LET s == SrcBuf(in.lens[1], in.seed, in.vmod)
               d == DstBuf(in.lens[2], in.fill)
               lane == GrayLaneCheck(in.e, s, d)
           IN  /\ ex' = in.e
               /\ src' = s
               /\ dst' = d
               /\ dst0' = d
               /\ wcount' = ZeroCounts(Len(d))
               /\ strip' = 0
               /\ IF lane = Ok
                  THEN /\ pc' = "strips"
                       /\ ret' = None
                       /\ working_set' = [i \in 1..STRIP |-> F(0)]
                  ELSE /\ pc' = "done"
                       /\ ret' = lane
                       /\ working_set' = <<>>
    /\ UNCHANGED notExecVars

\* One iteration of the loop over the full strips.
GrayStrip ==
    /\ pc = "strips"
    /\ ex.cfg.exec = "TransformProfileGrayToRgb"
    /\ strip < GrayStripPairs(ex, src, dst)
    /\ LET r == GrayTransformChunk(ex, src, strip * STRIP, STRIP,
                                   dst, strip * GrayDstChunk(ex), GrayDstChunk(ex),
                                   working_set, wcount)
       IN  /\ working_set' = r.ws
           /\ dst' = r.dst
           /\ wcount' = r.wc
           /\ IF r.panic
              THEN pc' = "done" /\ ret' = Panic("index out of bounds") /\ strip' = strip
              ELSE pc' = pc /\ ret' = ret /\ strip' = strip + 1
    /\ UNCHANGED <<ex, src, dst0>>
    /\ UNCHANGED notExecVars

\* The remainder step and the return.
GrayRemainder ==
    /\ pc = "strips"
    /\ ex.cfg.exec = "TransformProfileGrayToRgb"
    /\ strip = GrayStripPairs(ex, src, dst)
    /\ LET remLen == Len(src) % STRIP
           remOff == Len(src) - remLen
           dLen == Len(dst) % GrayDstChunk(ex)
           dOff == Len(dst) - dLen
           r == IF remLen # 0
                THEN GrayTransformChunk(ex, src, remOff, remLen, dst, dOff, dLen,
                                        working_set, wcount)
                ELSE [ws |-> working_set, dst |-> dst, wc |-> wcount, panic |-> FALSE]
       IN  /\ working_set' = r.ws
           /\ dst' = r.dst
           /\ wcount' = r.wc
           /\ pc' = "done"
           /\ ret' = IF r.panic THEN Panic("index out of bounds") ELSE Ok
    /\ UNCHANGED <<ex, src, dst0, strip>>
    /\ UNCHANGED notExecVars

\* The RGB matrix executors the factory builds (8-bit and 10-bit entry
\* points).
RgbCfgs ==
    {MakePcsXYZRgbBit(8, l, 256, 8192, 8, [rendering_intent |-> ri], o, m) :
        l \in {"Rgb8", "Rgba8"}, ri \in FactoryIntents,
        o \in TransformOptionsSet, m \in MatrixOptions}
    \cup
    {MakePcsXYZRgbBit(16, l, 1024, 8192, 10, [rendering_intent |-> ri], o, m) :
        l \in {"Rgb16", "Rgba16"}, ri \in {"Saturation", "RelativeColorimetric"},
        o \in TransformOptionsSet, m \in MatrixOptions}

\* Sample counts of the long RGB buffers: q full strips and r more pixels.
RgbBigLens(ch) == {q * STRIP + r * ch : q \in 0..MaxStrips, r \in Remainders}

RgbInputs ==
    [e : [cfg : RgbCfgs, curve : {"ramp"}], lens : SmallLens \X SmallLens,
     seed : {1000}, vmod : {256, 1024, 65536}, fill : DstFill]
    \cup
    {[e |-> [cfg |-> c, curve |-> "square"], lens |-> <<n, n>>,
      seed |-> 5, vmod |-> 256, fill |-> fl] :
        c \in {g \in RgbCfgs : g.T = 8 /\ g.rendering_intent = "Perceptual"},
        n \in RgbBigLens(3) \cup RgbBigLens(4), fl \in DstFill}

RgbTransformBegin ==
    /\ pc = "idle"
    /\ \E in \in RgbInputs :
        /\ in.vmod \in SampleMods(in.e.cfg)
        /\ LET s == PixelBuf(LayoutFrom(in.e.cfg.LAYOUT), in.e.cfg.T, in.lens[1], in.seed, in.vmod)
               d == DstBuf(in.lens[2], in.fill)
               lane == RgbLaneCheck(in.e, s, d)
           IN  /\ ex' = in.e
               /\ src' = s
               /\ dst' = d
               /\ dst0' = d
               /\ wcount' = ZeroCounts(Len(d))
               /\ strip' = 0
               /\ IF lane = Ok
                  THEN /\ pc' = "strips"
                       /\ ret' = None
                       /\ working_set' = [i \in 1..STRIP |-> F(0)]
                  ELSE /\ pc' = "done"
                       /\ ret' = lane
                       /\ working_set' = <<>>
    /\ UNCHANGED notExecVars

\* One iteration of the loop over the full strips.
RgbStrip ==
    /\ pc = "strips"
    /\ ex.cfg.exec = "TransformProfilePcsXYZRgbBit"
    /\ strip < RgbStripPairs(src, dst)
    /\ LET r == RgbTransformChunk(ex, src, strip * RgbChunk, RgbChunk,
                                  dst, strip * RgbChunk, RgbChunk, working_set, wcount)
       IN  /\ working_set' = r.ws
           /\ dst' = r.dst
           /\ wcount' = r.wc
           /\ IF r.panic
              THEN pc' = "done" /\ ret' = RgbPanic(r) /\ strip' = strip
              ELSE pc' = pc /\ ret' = ret /\ strip' = strip + 1
    /\ UNCHANGED <<ex, src, dst0>>
    /\ UNCHANGED notExecVars

\* The remainder step and the return.
RgbRemainder ==
    /\ pc = "strips"
    /\ ex.cfg.exec = "TransformProfilePcsXYZRgbBit"
    /\ strip = RgbStripPairs(src, dst)
    /\ LET remLen == Len(src) % RgbChunk
           remOff == Len(src) - remLen
           dLen == Len(dst) % RgbChunk
           dOff == Len(dst) - dLen
           r == IF remLen # 0
                THEN RgbTransformChunk(ex, src, remOff, remLen, dst, dOff, dLen,
                                       working_set, wcount)
                ELSE [ws |-> working_set, dst |-> dst, wc |-> wcount, panic |-> FALSE,
                      assert |-> FALSE]
       IN  /\ working_set' = r.ws
           /\ dst' = r.dst
           /\ wcount' = r.wc
           /\ pc' = "done"
           /\ ret' = IF r.panic THEN RgbPanic(r) ELSE Ok
    /\ UNCHANGED <<ex, src, dst0, strip>>
    /\ UNCHANGED notExecVars

\* The SSE Q4.12 executors: source and destination layouts of one width.
SseCfgs ==
    [exec : {"TransformProfileRgbQ12Sse"}, T : {8},
     SRC_LAYOUT : {LayoutAsU8("Rgb8"), LayoutAsU8("Rgba8")},
     DST_LAYOUT : {LayoutAsU8("Rgb8"), LayoutAsU8("Rgba8")},
     LINEAR_CAP : {256}, GAMMA_LUT : {8192}, BIT_DEPTH : {8},
     adaptation_matrix : Matrices]

SseInputs ==
    [e : [cfg : SseCfgs, curve : {"square"}], lens : SmallLens \X SmallLens,
     seed : {5}, vmod : {256}, fill : DstFill]

\* The whole of TransformProfileRgbQ12Sse::transform.
SseTransform ==
    /\ pc = "idle"
    /\ \E in \in SseInputs :
        LET s == PixelBuf(LayoutFrom(in.e.cfg.SRC_LAYOUT), in.e.cfg.T, in.lens[1], in.seed, in.vmod)
            d == DstBuf(in.lens[2], in.fill)
            lane == SseLaneCheck(in.e, s, d)
            r == SseLoop(in.e, s, d, ZeroCounts(Len(d)))
        IN  /\ ex' = in.e
            /\ src' = s
            /\ dst0' = d
            /\ IF lane = Ok
               THEN /\ dst' = r.dst
                    /\ wcount' = r.wc
                    /\ ret' = IF r.panic THEN Panic("index out of bounds") ELSE Ok
               ELSE /\ dst' = d
                    /\ wcount' = ZeroCounts(Len(d))
                    /\ ret' = lane
    /\ pc' = "done"
    /\ UNCHANGED <<working_set, strip>>
    /\ UNCHANGED notExecVars

\* The CLUT executors: 8-bit RGB or RGBA on the non-CMYK side.
Lut3x4Cfgs ==
    [exec : {"TransformLut3x4"}, T : {8},
     LAYOUT : {LayoutAsU8("Rgb8"), LayoutAsU8("Rgba8")},
     GRID_SIZE : {17}, BIT_DEPTH : {8}, interpolation_method : InterpolationMethods]

Lut4x3Cfgs ==
    [exec : {"TransformLut4XyzToRgbAvx", "TransformLut4XyzToRgbNeon"}, T : {8},
     LAYOUT : {LayoutAsU8("Rgb8"), LayoutAsU8("Rgba8")},
     GRID_SIZE : {17}, BIT_DEPTH : {8}, interpolation_method : InterpolationMethods]

ClutInputs(cfgs) ==
    [e : [cfg : cfgs], lens : SmallLens \X SmallLens,
     seed : {5}, vmod : {256}, fill : DstFill]

\* The whole of TransformLut3x4::transform.
Lut3x4Transform ==
    /\ pc = "idle"
    /\ \E in \in ClutInputs(Lut3x4Cfgs) :
        LET s == SrcBuf(in.lens[1], in.seed, in.vmod)
            d == DstBuf(in.lens[2], in.fill)
            lane == Lut3x4LaneCheck(in.e, s, d)
            r == Lut3x4Loop(in.e, s, d, ZeroCounts(Len(d)))
        IN  /\ ex' = in.e
            /\ src' = s
            /\ dst0' = d
            /\ IF lane = Ok
               THEN dst' = r.dst /\ wcount' = r.wc /\ ret' = Ok
               ELSE dst' = d /\ wcount' = ZeroCounts(Len(d)) /\ ret' = lane
    /\ pc' = "done"
    /\ UNCHANGED <<working_set, strip>>
    /\ UNCHANGED notExecVars

\* The whole of TransformLut4XyzToRgbAvx::transform /
\* TransformLut4XyzToRgbNeon::transform.
Lut4x3Transform ==
    /\ pc = "idle"
    /\ \E in \in ClutInputs(Lut4x3Cfgs) :
        LET s == SrcBuf(in.lens[1], in.seed, in.vmod)
            d == DstBuf(in.lens[2], in.fill)
            lane == Lut4x3LaneCheck(in.e, s, d)
            r == Lut4x3Loop(in.e, s, d, ZeroCounts(Len(d)))
        IN  /\ ex' = in.e
            /\ src' = s
            /\ dst0' = d
            /\ IF lane = Ok
               THEN dst' = r.dst /\ wcount' = r.wc /\ ret' = Ok
               ELSE dst' = d /\ wcount' = ZeroCounts(Len(d)) /\ ret' = lane
    /\ pc' = "done"
    /\ UNCHANGED <<working_set, strip>>
    /\ UNCHANGED notExecVars

(***************************************************************************)
(* Kernel steps: one per-pixel computation on inputs of its whole domain   *)
(***************************************************************************)
\* Q4.12 matrix entries: the ends of the signed 16-bit range, -2^-12 and 1.0.
SseEntries == {MinI32 \div 65536, -1, Q12, MaxI32 \div 65536}
SseRows == SseEntries \X SseEntries \X SseEntries
SseKernelMatrices ==
    {<<a, <<a[3], a[1], a[2]>>, c>> :
        a \in SseRows,
        c \in {<<MaxI32 \div 65536, MaxI32 \div 65536, MaxI32 \div 65536>>,
               <<MinI32 \div 65536, MinI32 \div 65536, MinI32 \div 65536>>,
               <<-1, Q12, MinI32 \div 65536>>}}
\* Linear table values in Q4.12: 0 .. 1.0.
SseLinearValues == {0, 1, Q12 \div 2, Q12 - 1, Q12}
SseGammaLuts == {2 * Q12, GAMMA_ARRAY}

\* The body of the pixel loop of transform_impl between the table loads and
\* the gamma lookups.
KernelSse ==
    /\ kcall = None
    /\ \E m \in SseKernelMatrices, r \in SseLinearValues, g \in SseLinearValues,
          b \in SseLinearValues, gl \in SseGammaLuts :
        /\ kcall' = [op |-> "sse", m |-> m, r |-> r, g |-> g, b |-> b,
                     GAMMA_LUT |-> gl]
        /\ kret' = SseKernel(m, gl, r, g, b)
    /\ UNCHANGED notKernelVars

\* Grid sizes 2 .. MaxGrid.
MaxGrid == 52
GridSizes == 2..MaxGrid

\* The K-axis computation of one pixel of the CLUT 4->3 kernels.
KernelLut4x3Weights ==
    /\ kcall = None
    /\ \E g \in GridSizes, k \in 0..LUT_SAMPLING :
        /\ kcall' = [op |-> "weights", k |-> k, GRID_SIZE |-> g]
        /\ kret' = Lut4x3Weights(k, g)
    /\ UNCHANGED notKernelVars

\* Interpolated values: below 0, inside [0, 1], above 1, NaN and the
\* infinities.
CValues ==
    {CNum(n * 2 * TDen) :
        n \in {-2 * VDen, -1, 0, 1, VDen \div 2, VDen - 1, VDen, VDen + 1, 3 * VDen}}
    \cup {CNaN, CInf(1), CInf(-1)}
\* Blend weights 0 <= t < 1.
CWeights == {CNum(n * 2 * VDen) : n \in 0..(TDen - 1)}
\* Storage width and bit depth of the integer CLUT executors.
ClutDepths == {<<8, 8>>, <<16, 10>>, <<16, 12>>, <<16, 16>>}

\* The store of one channel of TransformLut3x4::transform_chunk.
KernelLut3x4Store ==
    /\ kcall = None
    /\ \E v \in CValues, tb \in ClutDepths :
        /\ kcall' = [op |-> "store", kernel |-> "TransformLut3x4", v |-> v,
                     T |-> tb[1], BIT_DEPTH |-> tb[2]]
        /\ kret' = Lut3x4Store(v, tb[1], tb[2])
    /\ UNCHANGED notKernelVars

\* The blend and store of one channel of the AVX 4->3 kernel.
KernelAvxLut4x3Store ==
    /\ kcall = None
    /\ \E a0 \in CValues, b0 \in CValues, t \in CWeights, tb \in ClutDepths :
        /\ kcall' = [op |-> "store", kernel |-> "TransformLut4XyzToRgbAvx",
                     a0 |-> a0, b0 |-> b0, t |-> t, T |-> tb[1], BIT_DEPTH |-> tb[2]]
        /\ kret' = AvxLut4x3Store(a0, b0, t, tb[1], tb[2])
    /\ UNCHANGED notKernelVars

\* The blend and store of one channel of the NEON 4->3 kernel.
KernelNeonLut4x3Store ==
    /\ kcall = None
    /\ \E a0 \in CValues, b0 \in CValues, t \in CWeights, tb \in ClutDepths :
        /\ kcall' = [op |-> "store", kernel |-> "TransformLut4XyzToRgbNeon",
                     a0 |-> a0, b0 |-> b0, t |-> t, T |-> tb[1], BIT_DEPTH |-> tb[2]]
        /\ kret' = NeonLut4x3Store(a0, b0, t, tb[1], tb[2])
    /\ UNCHANGED notKernelVars

\* Cubes of the interpolant steps: one channel of GRID^3 lattice values.
InterpGrids == {2, 3}
CubeOf(grid, a, b) ==
    [i \in 1..(grid * grid * grid) |-> (a * (i % 11) * (i % 11) + b * (i % 11)) % 11]
Cubes(grid) == {CubeOf(grid, a, b) : a \in {1, 2}, b \in {0, 1, 5}}
\* The cubes taken as one table of a pair, the other one being any cube.
FirstCubes(grid) == {CubeOf(grid, a, 0) : a \in {1, 2}}
InSamples == {0, 64, 128, 200, 255}
DoubleMethods == {"Tetrahedral", "Pyramid", "Prism"}

\* One call of inter3_sse on a double-table interpolant, next to the two
\* single-table calls on the same cubes.
KernelInterpolate ==
    /\ kcall = None
    /\ \E m \in DoubleMethods, g \in InterpGrids :
        \E c0 \in FirstCubes(g), c1 \in Cubes(g),
           in_r \in InSamples, in_g \in InSamples, in_b \in InSamples :
            /\ kcall' = [op |-> "interp", method |-> m, GRID_SIZE |-> g,
                         table0 |-> c0, table1 |-> c1,
                         in_r |-> in_r, in_g |-> in_g, in_b |-> in_b]
            /\ kret' = [double |-> Inter3Double(m, c0, c1, g, in_r, in_g, in_b),
                        single0 |-> Inter3Single(m, c0, g, in_r, in_g, in_b),
                        single1 |-> Inter3Single(m, c1, g, in_r, in_g, in_b)]
    /\ UNCHANGED notKernelVars

\* A grid and samples on which two weights are equal as fractions and
\* differ as f32: 1 * 5 / 255 and 103 * 5 / 255 - 2.
TieGrids == {6}
TieSamples == {0, 1, 103}
\* A grid on which the f32 weight of a sample is above the fraction by
\* several units in its last place: 200 * 32 / 255 - 25.
WideGrids == {33}
WideSamples == {0, 200, 254}
TetrahedralSamples(g) ==
    IF g \in TieGrids THEN TieSamples ELSE IF g \in WideGrids THEN WideSamples ELSE InSamples

\* One call of the tetrahedral interpolants on two tables: the deltas and the
\* results of the single-table interpolant on each table and of the
\* double-table interpolant on both.
KernelTetrahedral ==
    /\ kcall = None
    /\ \E g \in InterpGrids \cup TieGrids \cup WideGrids :
        \E c0 \in Cubes(g), c1 \in FirstCubes(g),
           in_r \in TetrahedralSamples(g), in_g \in TetrahedralSamples(g),
           in_b \in TetrahedralSamples(g) :
            /\ kcall' = [op |-> "tetra", GRID_SIZE |-> g, table0 |-> c0, table1 |-> c1,
                         in_r |-> in_r, in_g |-> in_g, in_b |-> in_b]
            /\ kret' = [single0 |-> TetrahedralDeltas(c0, g, in_r, in_g, in_b),
                        single1 |-> TetrahedralDeltas(c1, g, in_r, in_g, in_b),
                        double |-> TetrahedralDeltasDouble(c0, c1, g, in_r, in_g, in_b),
                        out0 |-> TetrahedralAvxFma(c0, g, in_r, in_g, in_b),
                        out1 |-> TetrahedralAvxFma(c1, g, in_r, in_g, in_b),
                        outd |-> TetrahedralAvxFmaDouble(c0, c1, g, in_r, in_g, in_b)]
    /\ UNCHANGED notKernelVars

\* A cube whose lattice values are the affine function a*i + b*j + c*k + d of
\* the grid indices, co = <<a, b, c, d>>.
AffineCube(grid, co) ==
    [n \in 1..(grid * grid * grid) |->
        co[1] * ((n - 1) \div (grid * grid)) + co[2] * (((n - 1) \div grid) % grid)
            + co[3] * ((n - 1) % grid) + co[4]]
AffineGrids == {2, 3, 5}
AffineCoeffs == {<<1, 2, 4, 0>>, <<0 - 3, 5, 7, 10>>, <<2, 0 - 1, 0, 3>>}

\* One call of each single-table interpolant on an affine cube.
KernelAffine ==
    /\ kcall = None
    /\ \E g \in AffineGrids, co \in AffineCoeffs,
          in_r \in InSamples, in_g \in InSamples, in_b \in InSamples :
        /\ kcall' = [op |-> "affine", GRID_SIZE |-> g, co |-> co,
                     in_r |-> in_r, in_g |-> in_g, in_b |-> in_b]
        /\ kret' = [tetrahedral |-> TetrahedralAvxFma(AffineCube(g, co), g, in_r, in_g, in_b),
                    pyramid |-> PyramidalAvxFma(AffineCube(g, co), g, in_r, in_g, in_b),
                    prism |-> PrismaticAvxFma(AffineCube(g, co), g, in_r, in_g, in_b)]
    /\ UNCHANGED notKernelVars

\* The lattice points an interpolant may fetch for one pixel: every fetch of
\* every branch of the tetrahedral, pyramidal and prismatic interpolants takes
\* x or x_n, y or y_n and z or z_n.
CornerPoints(grid, in_r, in_g, in_b) ==
    {GridLo(in_r, grid), GridHi(in_r, grid)}
        \X {GridLo(in_g, grid), GridHi(in_g, grid)}
        \X {GridLo(in_b, grid), GridHi(in_b, grid)}

\* One pixel of the CLUT 4->3 transform_chunk: the starts of the two table
\* slices and the lattice points fetched inside them.
FetchSamples == {0, 127, 254, 255}
KernelFetch ==
    /\ kcall = None
    /\ \E g \in GridSizes, k \in {0, 1, 128, 254, 255},
          c \in FetchSamples, m \in FetchSamples, y \in FetchSamples :
        /\ kcall' = [op |-> "fetch", GRID_SIZE |-> g, c |-> c, m |-> m, y |-> y, k |-> k]
        /\ kret' = [table1 |-> Lut4x3Weights(k, g).table1,
                    table2 |-> Lut4x3Weights(k, g).table2,
                    points |-> CornerPoints(g, c, m, y),
                    offsets |-> {FetchOffset(g, p[1], p[2], p[3]) :
                                    p \in CornerPoints(g, c, m, y)}]
    /\ UNCHANGED notKernelVars

\* The corners x, x_n and the f32 weight rx of one input sample on one axis.
KernelGridCorners ==
    /\ kcall = None
    /\ \E g \in GridSizes, c \in 0..LUT_SAMPLING :
        /\ kcall' = [op |-> "corners", c |-> c, GRID_SIZE |-> g]
        /\ kret' = [x |-> GridLo(c, g), x_n |-> GridHi(c, g),
                    rx_f32 |-> GridWeightF32(c, g)]
    /\ UNCHANGED notKernelVars

(***************************************************************************)
(* The RGB matrix path of P.create_transform(P) on one channel             *)
(*                                                                         *)
(* The profile's tone curve is the power law x^gamma.  The factory builds  *)
(* the linearization table and the gamma table of a channel from the same  *)
(* curve, and transform_matrix gives the identity.  Table entries and      *)
(* stage results are computed as exact rationals; products that exceed 31  *)
(* bits are held as <<hi, lo>> with value hi * 2^10 + lo.                  *)
(***************************************************************************)
\* a * b for 0 <= a and 0 <= b with a * (b \div 2^10) below 2^31.
WideMul(a, b) ==
    LET p == a * (b % Pow2(10))
    IN  <<a * (b \div Pow2(10)) + p \div Pow2(10), p % Pow2(10)>>
WideLeq(x, y) == x[1] < y[1] \/ (x[1] = y[1] /\ x[2] <= y[2])

\* Entry v of a linearization table of `cap` entries: (v / (cap - 1))^gamma.
PowerLinear(gamma, v, cap) == [num |-> v ^ gamma, den |-> (cap - 1) ^ gamma]

\* The largest j in lo..hi with j - 1/2 <= (num / den) * s.
RECURSIVE RoundScaleSearch(_, _, _, _, _)
RoundScaleSearch(lo, hi, num, den, s) ==
    IF lo >= hi THEN lo
    ELSE LET mid == (lo + hi + 1) \div 2
         IN  IF WideLeq(WideMul(2 * mid - 1, den), WideMul(s, 2 * num))
             THEN RoundScaleSearch(mid, hi, num, den, s)
             ELSE RoundScaleSearch(lo, mid - 1, num, den, s)
\* MatrixClipScaleStage with the identity (and MatrixStage with the identity
\* followed by GamutClipScaleStage: no component exceeds 1) on one channel:
\* times scale, clamped to [0, scale], rounded to nearest.
IdentityStage(lin, scale) == RoundScaleSearch(0, scale, lin.num, lin.den, scale)

\* The largest k in lo..hi with ((2k - 1) / (2 max))^gamma <= j / s.
RECURSIVE GammaSearch(_, _, _, _, _, _)
GammaSearch(lo, hi, gamma, j, s, max) ==
    IF lo >= hi THEN lo
    ELSE LET mid == (lo + hi + 1) \div 2
         IN  IF WideLeq(WideMul(s, (2 * mid - 1) ^ gamma),
                        WideMul((2 ^ gamma) * j, max ^ gamma))
             THEN GammaSearch(mid, hi, gamma, j, s, max)
             ELSE GammaSearch(lo, mid - 1, gamma, j, s, max)
\* Entry j of the gamma table of the curve:
\* round((j / (gamma_lut - 1))^(1 / gamma) * (2^bit_depth - 1)).
PowerGamma(gamma, j, gamma_lut, bit_depth) ==
    GammaSearch(0, Pow2(bit_depth) - 1, gamma, j, gamma_lut - 1, Pow2(bit_depth) - 1)

\* One colour channel of one pixel through transform_chunk: the
\* linearization lookup, the stage, the gamma lookup at `chunk[c] as usize`.
IdentityChannel(gamma, linear_cap, gamma_lut, bit_depth, v) ==
    LET index == IdentityStage(PowerLinear(gamma, v, linear_cap), gamma_lut - 1)
    IN  [index |-> index, out |-> PowerGamma(gamma, index, gamma_lut, bit_depth)]

\* The 8-bit and the 10-bit entry point, with the exponents of the curve.
IdentityEntries ==
    {[BIT_DEPTH |-> 8, LINEAR_CAP |-> 256, GAMMA_LUT |-> 8192, gamma |-> g] : g \in 1..3}
    \cup
    {[BIT_DEPTH |-> 10, LINEAR_CAP |-> 1024, GAMMA_LUT |-> 8192, gamma |-> g] : g \in 1..2}

\* One colour sample through the executor P.create_transform(P) builds.
KernelIdentity ==
    /\ kcall = None
    /\ \E en \in IdentityEntries :
        \E v \in 0..(en.LINEAR_CAP - 1) :
            /\ kcall' = [op |-> "identity", BIT_DEPTH |-> en.BIT_DEPTH,
                         LINEAR_CAP |-> en.LINEAR_CAP, GAMMA_LUT |-> en.GAMMA_LUT,
                         gamma |-> en.gamma, sample |-> v]
            /\ kret' = IdentityChannel(en.gamma, en.LINEAR_CAP, en.GAMMA_LUT,
                                       en.BIT_DEPTH, v)
    /\ UNCHANGED notKernelVars

(***************************************************************************)
(* A factory call followed by a transform call on the executor it returned *)
(***************************************************************************)
\* Buffer lengths given to a built executor of ch channels per pixel: empty,
\* one pixel, a destination one sample longer, one full strip and a
\* remainder.
ApiLens(cfg) ==
    LET ch == channels(LayoutFrom(cfg.LAYOUT))
    IN  IF cfg.exec = "TransformProfileGrayToRgb"
        THEN {<<0, 0>>, <<2, 2 * ch>>, <<2, 2 * ch + 1>>, <<STRIP + 5, (STRIP + 5) * ch>>}
        ELSE {<<0, 0>>, <<ch, ch>>, <<ch, ch + 1>>, <<STRIP + 12, STRIP + 12>>}

\* transform is called on the executor the last factory call returned.
BuiltTransformBegin ==
    /\ pc = "idle"
    /\ fcall # None
    /\ fret.kind = "Ok"
    /\ \E c \in {"square"}, lens \in ApiLens(fret) :
        LET e == [cfg |-> fret, curve |-> c]
            gray == fret.exec = "TransformProfileGrayToRgb"
            s == IF gray THEN SrcBuf(lens[1], 5, fret.LINEAR_CAP)
                 ELSE PixelBuf(LayoutFrom(fret.LAYOUT), fret.T, lens[1], 5, fret.LINEAR_CAP)
            d == DstBuf(lens[2], 7)
            lane == IF gray THEN GrayLaneCheck(e, s, d) ELSE RgbLaneCheck(e, s, d)
        IN  /\ ex' = e
            /\ src' = s
            /\ dst' = d
            /\ dst0' = d
            /\ wcount' = ZeroCounts(Len(d))
            /\ strip' = 0
            /\ IF lane = Ok
               THEN /\ pc' = "strips"
                    /\ ret' = None
                    /\ working_set' = [i \in 1..STRIP |-> F(0)]
               ELSE /\ pc' = "done"
                    /\ ret' = lane
                    /\ working_set' = <<>>
    /\ UNCHANGED notExecVars

(***************************************************************************)
(* Two calls of transform on one executor                                  *)
(*                                                                         *)
(* The executor types are dyn TransformExecutor<T> + Send + Sync and       *)
(* transform takes &self, &[T] and &mut [T]: two threads may call the same *)
(* executor on the same source at once, each with a destination of its     *)
(* own.  A call's state is its position in the loop over the chunks, its   *)
(* scratch and its destination.  One step is one half of transform_chunk:  *)
(* the loads into the scratch with the stages, or the stores from it.      *)
(***************************************************************************)
Threads == {1, 2}
\* The scratch a call works in: `let mut working_set = [0f32; 672]` is a
\* local of transform, one per call.
ScratchOf_Shared(t) == 1
ScratchOf(t) == t

IsGrayExec(e) == e.cfg.exec = "TransformProfileGrayToRgb"
LaneCheck(e, s, d) == IF IsGrayExec(e) THEN GrayLaneCheck(e, s, d) ELSE RgbLaneCheck(e, s, d)
\* The chunks of a call: the zipped full strips, then the remainder.
StripPairs(e, s, d) == IF IsGrayExec(e) THEN GrayStripPairs(e, s, d) ELSE RgbStripPairs(s, d)
SrcChunk(e) == IF IsGrayExec(e) THEN STRIP ELSE RgbChunk
DstChunk(e) == IF IsGrayExec(e) THEN GrayDstChunk(e) ELSE RgbChunk
ChunkCount(e, s, d) ==
    StripPairs(e, s, d) + (IF Len(s) % SrcChunk(e) # 0 THEN 1 ELSE 0)
ChunkAt(e, s, d, k) ==
    IF k < StripPairs(e, s, d)
    THEN [sOff |-> k * SrcChunk(e), sLen |-> SrcChunk(e),
          dOff |-> k * DstChunk(e), dLen |-> DstChunk(e)]
    ELSE [sOff |-> Len(s) - (Len(s) % SrcChunk(e)), sLen |-> Len(s) % SrcChunk(e),
          dOff |-> Len(d) - (Len(d) % DstChunk(e)), dLen |-> Len(d) % DstChunk(e)]
ChunkLoad(e, s, c, ws) ==
    IF IsGrayExec(e) THEN GrayLoad(e, s, c.sOff, c.sLen, ws)
    ELSE RgbLoad(e, s, c.sOff, c.sLen, ws)
ChunkStore(e, ws, d, c) ==
    IF IsGrayExec(e)
    THEN GrayStoreChunk(e, [ws |-> ws, panic |-> FALSE], d, c.dOff, c.dLen, ZeroCounts(Len(d)))
    ELSE RgbStoreChunk(e, [ws |-> ws, panic |-> FALSE, assert |-> FALSE], d, c.dOff, c.dLen,
                       ZeroCounts(Len(d)))
ZeroScratch == [i \in 1..STRIP |-> F(0)]

\* transform run from its first statement to its return with nothing else
\* running: the destination it leaves and the value it returns.
RECURSIVE TransformFrom(_, _, _, _, _)
TransformFrom(e, s, d, ws, k) ==
    IF k >= ChunkCount(e, s, d) THEN [dst |-> d, ret |-> Ok]
    ELSE LET c == ChunkAt(e, s, d, k)
             ld == ChunkLoad(e, s, c, ws)
             st == ChunkStore(e, ld.ws, d, c)
         IN  IF ld.panic THEN [dst |-> d, ret |-> Panic("index out of bounds")]
             ELSE IF st.panic THEN [dst |-> st.dst, ret |-> Panic("index out of bounds")]
             ELSE TransformFrom(e, s, st.dst, ld.ws, k + 1)
TransformAlone(e, s, d) ==
    IF LaneCheck(e, s, d) # Ok THEN [dst |-> d, ret |-> LaneCheck(e, s, d)]
    ELSE TransformFrom(e, s, d, ZeroScratch, 0)
\* The scratch of a call running alone once it has loaded chunk k.
RECURSIVE ScratchAlone(_, _, _, _)
ScratchAlone(e, s, d, k) ==
    ChunkLoad(e, s, ChunkAt(e, s, d, k),
              IF k = 0 THEN ZeroScratch ELSE ScratchAlone(e, s, d, k - 1)).ws

\* Sources of one full strip and a remainder, and of two full strips.
SharedLens == {STRIP + 12, 2 * STRIP}
\* What the destination of each call holds before the call.
ThreadFill(t) == 6 + t
SharedInputs ==
    {[e |-> [cfg |-> c, curve |-> "square"], lens |-> <<n, n>>, seed |-> 5, vmod |-> 256] :
        c \in {g \in RgbCfgs : g.T = 8 /\ g.rendering_intent = "Perceptual"},
        n \in {STRIP + 12}}
    \cup
    {[e |-> [cfg |-> c, curve |-> "square"],
      lens |-> <<n, n * channels(LayoutFrom(c.LAYOUT))>>, seed |-> 5, vmod |-> 256] :
        c \in {g \in GrayCfgs : g.T = 8}, n \in SharedLens}
    \cup
    {[e |-> [cfg |-> c, curve |-> "ramp"], lens |-> l, seed |-> 1000, vmod |-> m] :
        c \in {g \in RgbCfgs : g.T = 16 /\ LayoutFrom(g.LAYOUT) = "Rgba16"},
        l \in {<<STRIP + 12, STRIP + 12>>, <<STRIP, STRIP + 12>>}, m \in {1024, 65536}}
SharedSrc(in) ==
    IF IsGrayExec(in.e) THEN SrcBuf(in.lens[1], in.seed, in.vmod)
    ELSE PixelBuf(LayoutFrom(in.e.cfg.LAYOUT), in.e.cfg.T, in.lens[1], in.seed, in.vmod)
SharedDst(in, t) == DstBuf(in.lens[2], ThreadFill(t))

\* Both threads are handed the executor, the source and a destination, and
\* each runs the lane checks of its call.
SharedBegin ==
    /\ scall = None
    /\ \E in \in SharedInputs :
        LET s == SharedSrc(in)
            lane(t) == LaneCheck(in.e, s, SharedDst(in, t))
            starts(t) == lane(t) = Ok /\ ChunkCount(in.e, s, SharedDst(in, t)) > 0
        IN  /\ scall' = in
            /\ shared_ex' = in.e
            /\ shared_src' = s
            /\ tdst' = [t \in Threads |-> SharedDst(in, t)]
            /\ tws' = [t \in Threads |-> ZeroScratch]
            /\ tchunk' = [t \in Threads |-> 0]
            /\ tpc' = [t \in Threads |-> IF starts(t) THEN "load" ELSE "done"]
            /\ tret' = [t \in Threads |-> IF starts(t) THEN None ELSE lane(t)]
            /\ overlap' = FALSE
    /\ UNCHANGED notSharedVars

\* Call t runs the loads and the stages of its next chunk.
ThreadLoad(t) ==
    /\ tpc[t] = "load"
    /\ LET c == ChunkAt(shared_ex, shared_src, tdst[t], tchunk[t])
           ld == ChunkLoad(shared_ex, shared_src, c, tws[ScratchOf(t)])
       IN  /\ tws' = [tws EXCEPT ![ScratchOf(t)] = ld.ws]
           /\ IF ld.panic
              THEN /\ tpc' = [tpc EXCEPT ![t] = "done"]
                   /\ tret' = [tret EXCEPT ![t] = Panic("index out of bounds")]
              ELSE /\ tpc' = [tpc EXCEPT ![t] = "store"]
                   /\ tret' = tret
    /\ overlap' = (overlap \/ \E u \in Threads \ {t} : tpc[u] = "store")
    /\ UNCHANGED <<scall, shared_ex, shared_src, tchunk, tdst>>
    /\ UNCHANGED notSharedVars

\* Call t runs the stores of the chunk it loaded, and returns after the last.
ThreadStore(t) ==
    /\ tpc[t] = "store"
    /\ LET c == ChunkAt(shared_ex, shared_src, tdst[t], tchunk[t])
           st == ChunkStore(shared_ex, tws[ScratchOf(t)], tdst[t], c)
           last == tchunk[t] + 1 >= ChunkCount(shared_ex, shared_src, tdst[t])
       IN  /\ tdst' = [tdst EXCEPT ![t] = st.dst]
           /\ IF st.panic
              THEN /\ tpc' = [tpc EXCEPT ![t] = "done"]
                   /\ tret' = [tret EXCEPT ![t] = Panic("index out of bounds")]
                   /\ tchunk' = tchunk
              ELSE /\ tchunk' = [tchunk EXCEPT ![t] = tchunk[t] + 1]
                   /\ tpc' = [tpc EXCEPT ![t] = IF last THEN "done" ELSE "load"]
                   /\ tret' = [tret EXCEPT ![t] = IF last THEN Ok ELSE tret[t]]
    /\ UNCHANGED <<scall, shared_ex, shared_src, tws, overlap>>
    /\ UNCHANGED notSharedVars

InitExec ==
    /\ pc = "idle"
    /\ ex = None
    /\ src = <<>>
    /\ dst = <<>>
    /\ dst0 = <<>>
    /\ wcount = <<>>
    /\ working_set = <<>>
    /\ strip = 0
    /\ ret = None

InitFactory ==
    /\ fcall = None
    /\ fret = None

InitKernel ==
    /\ kcall = None
    /\ kret = None

InitShared ==
    /\ scall = None
    /\ shared_ex = None
    /\ shared_src = <<>>
    /\ tpc = [t \in Threads |-> "idle"]
    /\ tchunk = [t \in Threads |-> 0]
    /\ tws = [t \in Threads |-> <<>>]
    /\ tdst = [t \in Threads |-> <<>>]
    /\ tret = [t \in Threads |-> None]
    /\ overlap = FALSE

Init == InitExec /\ InitFactory /\ InitKernel /\ InitShared

NextFactory ==
    \/ CreateTransform8bit
    \/ CreateTransform10bit
    \/ CreateTransform12bit
    \/ CreateTransform16bit

SpecFactory == Init /\ [][NextFactory]_vars

NextExec ==
    \/ GrayTransformBegin
    \/ GrayStrip
    \/ GrayRemainder
    \/ RgbTransformBegin
    \/ RgbStrip
    \/ RgbRemainder
    \/ SseTransform
    \/ Lut3x4Transform
    \/ Lut4x3Transform

Spec == Init /\ [][NextExec]_vars

NextKernel ==
    \/ KernelSse
    \/ KernelLut4x3Weights
    \/ KernelLut3x4Store
    \/ KernelAvxLut4x3Store
    \/ KernelNeonLut4x3Store
    \/ KernelGridCorners
    \/ KernelFetch
    \/ KernelIdentity
    \/ KernelAffine
    \/ KernelTetrahedral
    \/ KernelInterpolate

SpecKernel == Init /\ [][NextKernel]_vars

NextShared ==
    \/ SharedBegin
    \/ \E t \in Threads : ThreadLoad(t)
    \/ \E t \in Threads : ThreadStore(t)

SpecShared == Init /\ [][NextShared]_vars

NextApi ==
    \/ NextFactory
    \/ BuiltTransformBegin
    \/ GrayStrip
    \/ GrayRemainder
    \/ RgbStrip
    \/ RgbRemainder

SpecApi == Init /\ [][NextApi]_vars

(***************************************************************************)
(* Properties of the executors (specification Spec)                        *)
(***************************************************************************)
GrayExec == "TransformProfileGrayToRgb"
RgbExec == "TransformProfilePcsXYZRgbBit"
SseExec == "TransformProfileRgbQ12Sse"
Lut3x4Exec == "TransformLut3x4"
Lut4x3Execs == {"TransformLut4XyzToRgbAvx", "TransformLut4XyzToRgbNeon"}
ClutExecs == {Lut3x4Exec} \cup Lut4x3Execs

Returned(name) == pc = "done" /\ ex.cfg.exec = name

\* Samples per source pixel and per destination pixel of executor e.
SrcChannels(e) ==
    CASE e.cfg.exec = GrayExec -> 1
      [] e.cfg.exec = RgbExec -> channels(LayoutFrom(e.cfg.LAYOUT))
      [] e.cfg.exec = SseExec -> channels(LayoutFrom(e.cfg.SRC_LAYOUT))
      [] e.cfg.exec = Lut3x4Exec -> channels(LayoutFrom(e.cfg.LAYOUT))
      [] e.cfg.exec \in Lut4x3Execs -> 4

DstChannels(e) ==
    CASE e.cfg.exec = GrayExec -> channels(LayoutFrom(e.cfg.LAYOUT))
      [] e.cfg.exec = RgbExec -> channels(LayoutFrom(e.cfg.LAYOUT))
      [] e.cfg.exec = SseExec -> channels(LayoutFrom(e.cfg.DST_LAYOUT))
      [] e.cfg.exec = Lut3x4Exec -> 4
      [] e.cfg.exec \in Lut4x3Execs -> channels(LayoutFrom(e.cfg.LAYOUT))

SrcWhole == Len(src) % SrcChannels(ex) = 0
DstWhole == Len(dst) % DstChannels(ex) = 0
SamePixelCount == Len(src) \div SrcChannels(ex) = Len(dst) \div DstChannels(ex)
LanesOk == SrcWhole /\ DstWhole /\ SamePixelCount

LaneErrors == {Err("LaneSizeMismatch"), Err("LaneMultipleOfChannels")}

\* Every source sample is data of the executor's bit depth (an index into
\* its linearization tables).  The CLUT executors take every sample.
InDepth ==
    \/ ex.cfg.exec \in ClutExecs
    \/ \A i \in 1..Len(src) :
          \/ src[i] < ex.cfg.LINEAR_CAP
          \/ /\ ex.cfg.exec \in {RgbExec, SseExec}
             /\ (i - 1) % SrcChannels(ex) = 3

Untouched == dst = dst0 /\ \A j \in 1..Len(dst) : wcount[j] = 0

\* What channel c of a Gray-path destination pixel must hold for the source
\* sample v: gray_gamma[round(gray_linear[v] * (GAMMA_LUT - 1))] in the
\* colour channels, 2^BIT_DEPTH - 1 in alpha.
GrayExpected(e, v, c) ==
    LET cn == LayoutFrom(e.cfg.LAYOUT)
        lin == F(LinearTable(e.curve, e.cfg.LINEAR_CAP, v) * MatDen)
        colour == GammaTable(e.cfg.GAMMA_LUT, e.cfg.BIT_DEPTH, e.cfg.T,
                             RoundScaled(lin, e.cfg.GAMMA_LUT - 1))
    IN  IF has_alpha(cn) /\ c = channels(cn) - 1
        THEN Pow2(e.cfg.BIT_DEPTH) - 1
        ELSE colour

\* C1: Gray executor, every destination layout, every pixel count N with
\* src.len() = N and dst.len() = N * channels: transform returns Ok, and every
\* destination pixel i holds the gamma of the linearized source sample i in
\* its colour channel(s) and 2^BIT_DEPTH - 1 in alpha; no pixel is left
\* unwritten or written from another source pixel.
C1_GrayWritesEveryPixel ==
    (Returned(GrayExec) /\ Len(dst) = Len(src) * DstChannels(ex) /\ InDepth) =>
        /\ ret = Ok
        /\ \A j \in 1..Len(dst) :
            /\ wcount[j] >= 1
            /\ dst[j] = GrayExpected(ex, src[((j - 1) \div DstChannels(ex)) + 1],
                                     (j - 1) % DstChannels(ex))

\* What channel k of an RGB-matrix destination pixel must hold for the source
\* pixel px alone: linearize, run the stage pipeline on that one pixel, look
\* the gamma tables up; alpha is the source alpha.
RgbExpected(e, px, k) ==
    LET cn == LayoutFrom(e.cfg.LAYOUT)
        lin == <<F(r_linear(e, px[r_i(cn) + 1])), F(g_linear(e, px[g_i(cn) + 1])),
                 F(b_linear(e, px[b_i(cn) + 1]))>>
        st == RgbStagesPx(e, lin)
    IN  CASE k = r_i(cn) -> r_gamma(e, AsUsize(st[1]))
          [] k = g_i(cn) -> g_gamma(e, AsUsize(st[2]))
          [] k = b_i(cn) -> b_gamma(e, AsUsize(st[3]))
          [] OTHER -> px[a_i(cn) + 1]

SrcPixel(p) == [k \in 1..SrcChannels(ex) |-> src[p * SrcChannels(ex) + k]]

\* C2: RGB matrix executor, buffers of a whole number of pixels: after Ok
\* every output sample has been stored exactly once, pixel i of dst holds the
\* value computed from pixel i of src and the compiled transform alone,
\* whatever the buffer length, the position of the strip boundaries and the
\* scratch contents an earlier strip left.
C2_RgbPixelwise ==
    (Returned(RgbExec) /\ ret = Ok) =>
        \A j \in 1..Len(dst) :
            /\ wcount[j] = 1
            /\ dst[j] = RgbExpected(ex, SrcPixel((j - 1) \div DstChannels(ex)),
                                    (j - 1) % DstChannels(ex))

\* An RGB call that returned Ok after at least one full strip and a
\* remainder strip, with an adaptation matrix.
C2_Witness ==
    /\ Returned(RgbExec)
    /\ ret = Ok
    /\ strip >= 1
    /\ Len(src) % STRIP # 0
    /\ ex.cfg.adaptation_matrix # NoMatrix

\* C3: every executor: transform returns Ok if and only if src.len() is a
\* multiple of the source channel count, dst.len() is a multiple of the
\* destination channel count and both give the same pixel count; in every
\* other case it returns LaneSizeMismatch or LaneMultipleOfChannels, and on
\* an error no element of dst has been written.
C3_LaneContract ==
    pc = "done" =>
        /\ ret = Ok <=> LanesOk
        /\ ~LanesOk => ret \in LaneErrors /\ Untouched

\* C4 as stated: the CLUT executors return LaneMultipleOfChannels whenever
\* src.len() or dst.len() is not a multiple of its channel count, and
\* LaneSizeMismatch whenever the two pixel counts differ; the interpolation
\* loop runs only when neither holds.
C4_ClutLaneErrorsAsStated ==
    (pc = "done" /\ ex.cfg.exec \in ClutExecs) =>
        /\ (~SrcWhole \/ ~DstWhole) => ret = Err("LaneMultipleOfChannels")
        /\ ~SamePixelCount => ret = Err("LaneSizeMismatch")
        /\ (ret = Ok \/ \E j \in 1..Len(dst) : wcount[j] > 0) =>
                (SrcWhole /\ DstWhole /\ SamePixelCount)

\* C4 amended: the CLUT executors return LaneMultipleOfChannels whenever
\* src.len() or dst.len() is not a multiple of its channel count, and
\* LaneSizeMismatch whenever both are multiples and the two pixel counts
\* differ; the interpolation loop runs only when neither holds.
C4_ClutLaneErrors ==
    (pc = "done" /\ ex.cfg.exec \in ClutExecs) =>
        /\ (~SrcWhole \/ ~DstWhole) => ret = Err("LaneMultipleOfChannels")
        /\ (SrcWhole /\ DstWhole /\ ~SamePixelCount) => ret = Err("LaneSizeMismatch")
        /\ (ret = Ok \/ \E j \in 1..Len(dst) : wcount[j] > 0) =>
                (SrcWhole /\ DstWhole /\ SamePixelCount)

\* A 3->4 call whose source is no whole number of pixels and whose pixel
\* counts differ as well: the multiple-of-channels error is the one returned.
C4_Witness ==
    /\ Returned(Lut3x4Exec)
    /\ ~SrcWhole
    /\ ~SamePixelCount
    /\ ret = Err("LaneMultipleOfChannels")

ExactlyOneEmpty == (Len(src) = 0) # (Len(dst) = 0)

\* C5 as stated: every executor, exactly one of src and dst empty:
\* transform returns LaneSizeMismatch.
C5_OneEmptyAsStated ==
    (pc = "done" /\ ExactlyOneEmpty) => ret = Err("LaneSizeMismatch")

\* C5 amended: every executor, exactly one of src and dst empty: transform
\* returns a lane error, never Ok, and the error is LaneSizeMismatch whenever
\* the non-empty buffer holds a whole number of pixels.
C5_OneEmpty ==
    (pc = "done" /\ ExactlyOneEmpty) =>
        /\ ret \in LaneErrors
        /\ (SrcWhole /\ DstWhole) => ret = Err("LaneSizeMismatch")

\* A Gray call with a non-empty source of whole pixels and an empty
\* destination, refused with LaneSizeMismatch.
C5_Witness ==
    /\ Returned(GrayExec)
    /\ Len(src) > 0
    /\ Len(dst) = 0
    /\ ret = Err("LaneSizeMismatch")

(***************************************************************************)
(* Properties of the factory (specification SpecFactory)                   *)
(***************************************************************************)
Called == fcall # None
Entry8 == fcall.entry = "8bit"
EntryN == fcall.entry \in {"10bit", "12bit", "16bit"}
Wide == fcall.layout \in {"Rgb16", "Rgba16", "Gray16", "GrayAlpha16"}
Narrow == fcall.layout \in {"Rgb8", "Rgba8", "Gray8", "GrayAlpha8"}
\* The layout has the width of the entry point called.
WidthMatches == (Entry8 /\ Narrow) \/ (EntryN /\ Wide)
GrayLayout == fcall.layout \in {"Gray8", "GrayAlpha8", "Gray16", "GrayAlpha16"}
RgbLayout == fcall.layout \in {"Rgb8", "Rgba8", "Rgb16", "Rgba16"}

RgbToRgbXyz ==
    /\ fcall.src.color_space = "Rgb" /\ fcall.dst.color_space = "Rgb"
    /\ fcall.src.pcs = "Xyz" /\ fcall.dst.pcs = "Xyz"
GrayToRgbXyz ==
    /\ fcall.src.color_space = "Gray" /\ fcall.dst.color_space = "Rgb"
    /\ fcall.src.pcs = "Xyz" /\ fcall.dst.pcs = "Xyz"
CmykToRgb == fcall.src.color_space = "Cmyk" /\ fcall.dst.color_space = "Rgb"
SupportedPair == RgbToRgbXyz \/ GrayToRgbXyz \/ CmykToRgb

\* C6: the 8-bit entry point returns InvalidLayout for each 16-bit layout and
\* the 10/12/16-bit entry points for each 8-bit layout, whatever the profile
\* pair (the width check comes before the connection check); each of the 8
\* layouts passes the width check of exactly one of the two families, where
\* an unsupported pair then gives UnsupportedProfileConnection.
C6_WidthCheck ==
    Called =>
        /\ (Entry8 /\ Wide) => fret = Err("InvalidLayout")
        /\ (EntryN /\ Narrow) => fret = Err("InvalidLayout")
        /\ Wide # Narrow
        /\ (WidthMatches /\ ~SupportedPair) => fret = Err("UnsupportedProfileConnection")

\* The 8-bit entry point called with Gray16 and a pair no pipeline supports.
C6_Witness ==
    /\ Called
    /\ Entry8
    /\ fcall.layout = "Gray16"
    /\ fcall.src.color_space = "Lab"
    /\ fret = Err("InvalidLayout")

\* C7: RGB source and RGB destination, both with PCS = XYZ: every entry point
\* returns InvalidLayout for a Gray or GrayAlpha layout of its width, and an
\* RGB matrix executor specialised to the requested layout for Rgb or Rgba
\* of its width when the tables build.
C7_RgbToRgbLayouts ==
    (Called /\ RgbToRgbXyz /\ WidthMatches) =>
        /\ GrayLayout => fret = Err("InvalidLayout")
        /\ (RgbLayout /\ fcall.src.trc_ok /\ fcall.dst.trc_ok) =>
            /\ fret.kind = "Ok"
            /\ fret.exec = RgbExec
            /\ LayoutFrom(fret.LAYOUT) = fcall.layout
            /\ fret.T = (IF Entry8 THEN 8 ELSE 16)

\* The 12-bit entry point building the Rgba16 executor.
C7_Witness ==
    /\ Called
    /\ fcall.entry = "12bit"
    /\ RgbToRgbXyz
    /\ fcall.layout = "Rgba16"
    /\ fret.kind = "Ok"
    /\ LayoutFrom(fret.LAYOUT) = "Rgba16"

\* C8: CMYK source and RGB destination: the factory hands the call to the
\* CMYK->RGB builder (CLUT 4->3) and never returns
\* UnsupportedProfileConnection, for Rgb8/Rgba8 at the 8-bit entry point and
\* for Rgb16/Rgba16 at the 10/12/16-bit entry points.
C8_CmykSelectsClut ==
    (Called /\ CmykToRgb /\ WidthMatches /\ RgbLayout) =>
        /\ fret.kind = "Delegated"
        /\ fret # Err("UnsupportedProfileConnection")

\* C9: CMYK source and RGB destination: a Gray or GrayAlpha layout of the
\* entry point's own width fails with InvalidLayout.
C9_CmykGrayLayout ==
    (Called /\ CmykToRgb /\ WidthMatches /\ GrayLayout) => fret = Err("InvalidLayout")

\* C10: a layout of the entry point's width and a pair that is neither
\* RGB->RGB with both PCS = XYZ, nor Gray->RGB with both PCS = XYZ, nor
\* CMYK->RGB: the factory returns UnsupportedProfileConnection, never an
\* executor.
C10_Unsupported ==
    (Called /\ WidthMatches /\ ~SupportedPair) =>
        /\ fret = Err("UnsupportedProfileConnection")
        /\ fret.kind \notin {"Ok", "Delegated"}

\* An RGB->RGB call of matching width whose source PCS is Lab.
C10_Witness ==
    /\ Called
    /\ WidthMatches
    /\ fcall.src.color_space = "Rgb"
    /\ fcall.dst.color_space = "Rgb"
    /\ fcall.src.pcs = "Lab"
    /\ fret = Err("UnsupportedProfileConnection")

\* The alpha sample of pixel p of a four-channel buffer.
AlphaOf(buf, p) == buf[p * 4 + 4]

\* C11: alpha is preserved exactly.  After an Ok call of the RGB matrix
\* executor with an RGBA layout (any alpha value of the storage type, with or
\* without a matrix, with either clipping stage), and after an Ok call of the
\* SSE Q4.12 kernel whose source and destination layouts both have alpha,
\* every destination pixel holds the alpha sample of its source pixel.
C11_AlphaPreserved ==
    /\ (Returned(RgbExec) /\ ret = Ok /\ has_alpha(LayoutFrom(ex.cfg.LAYOUT))) =>
          \A p \in 0..((Len(dst) \div 4) - 1) : AlphaOf(dst, p) = AlphaOf(src, p)
    /\ (Returned(SseExec) /\ ret = Ok
          /\ has_alpha(LayoutFrom(ex.cfg.SRC_LAYOUT))
          /\ has_alpha(LayoutFrom(ex.cfg.DST_LAYOUT))) =>
          \A p \in 0..((Len(dst) \div 4) - 1) : AlphaOf(dst, p) = AlphaOf(src, p)

\* A 10-bit RGBA call through the gamut-clipping matrix branch that returned
\* Ok with an alpha sample above the bit depth, the largest u16 among them.
C11_Witness ==
    /\ Returned(RgbExec)
    /\ ret = Ok
    /\ ex.cfg.T = 16
    /\ has_alpha(LayoutFrom(ex.cfg.LAYOUT))
    /\ ex.cfg.adaptation_matrix # NoMatrix
    /\ UseGamutClip(ex)
    /\ Len(dst) >= 8
    /\ \E p \in 0..((Len(dst) \div 4) - 1) : AlphaOf(dst, p) = 65535
    /\ \E p \in 0..((Len(dst) \div 4) - 1) :
          AlphaOf(dst, p) >= ex.cfg.LINEAR_CAP /\ AlphaOf(dst, p) < 65535

\* C15: a built executor fails with the two lane errors only.  For buffers
\* that pass the lane check, whatever the samples of the storage type (every
\* u16 for the 10- and 12-bit executors), transform returns Ok: no index out
\* of range, no panic.
C15_OnlyLaneErrors ==
    (pc = "done" /\ LanesOk) => ret = Ok

\* C17: the Layout byte encoding is fixed and round-trips.  The discriminants
\* are 0=Rgb8, 1=Rgba8, 2=Rgb16, 3=Rgba16, 4=Gray8, 5=GrayAlpha8, 6=Gray16,
\* 7=GrayAlpha16; Layout::from(L as u8) = L for every layout L; and the
\* LAYOUT byte of every executor the factory builds decodes to the layout
\* the factory was asked for.
C17_LayoutRoundTrip ==
    /\ <<LayoutAsU8("Rgb8"), LayoutAsU8("Rgba8"), LayoutAsU8("Rgb16"),
          LayoutAsU8("Rgba16"), LayoutAsU8("Gray8"), LayoutAsU8("GrayAlpha8"),
          LayoutAsU8("Gray16"), LayoutAsU8("GrayAlpha16")>>
            = <<0, 1, 2, 3, 4, 5, 6, 7>>
    /\ \A l \in Layouts : LayoutFrom(LayoutAsU8(l)) = l
    /\ \A b \in 0..7 : LayoutAsU8(LayoutFrom(b)) = b
    /\ (Called /\ fret.kind = "Ok") => LayoutFrom(fret.LAYOUT) = fcall.layout

\* The 16-bit entry point building the Gray executor for GrayAlpha16, whose
\* LAYOUT byte is 7.
C17_Witness ==
    /\ Called
    /\ fcall.entry = "16bit"
    /\ fcall.layout = "GrayAlpha16"
    /\ fret.kind = "Ok"
    /\ fret.exec = GrayExec
    /\ fret.LAYOUT = 7

KernelStep(op) == kcall # None /\ kcall.op = op

\* The integer the claim gives for the gamma index of output channel i.
SseIndexExpected(i) ==
    LET sum == kcall.m[i][1] * kcall.r + kcall.m[i][2] * kcall.g
               + kcall.m[i][3] * kcall.b + (Pow2(11) - 1)
    IN  Min(Max(sum \div Pow2(12), 0), kcall.GAMMA_LUT - 1)

\* C18: SSE Q4.12 kernel, linear values r, g, b in [0, 4096], matrix entries
\* in the signed 16-bit range, GAMMA_LUT <= 65536: the gamma-table index read
\* from the 16-bit temporary for output channel i is
\* clamp((M[i][0]*r + M[i][1]*g + M[i][2]*b + (2^11 - 1)) >> 12, 0, GAMMA_LUT - 1)
\* with an arithmetic shift.
C18_SseGammaIndex ==
    KernelStep("sse") =>
        \A i \in 1..3 : kret.temporary[i] = SseIndexExpected(i)

\* A pixel of an asymmetric matrix with a negative lane clamped to 0, a lane
\* clamped to GAMMA_LUT - 1 = 65535 and a lane strictly between.
C18_Witness ==
    /\ KernelStep("sse")
    /\ kcall.GAMMA_LUT = GAMMA_ARRAY
    /\ kcall.m # Transpose(kcall.m)
    /\ \E i \in 1..3 : kret.v[i] < 0 /\ kret.temporary[i] = 0
    /\ \E i \in 1..3 : kret.temporary[i] = GAMMA_ARRAY - 1
    /\ \E i \in 1..3 : kret.temporary[i] > 0 /\ kret.temporary[i] < GAMMA_ARRAY - 1

\* C19: no 32-bit signed overflow in the Q4.12 pipeline.  For linear values
\* in [0, 2^12] and every signed 16-bit matrix entry, each product, each
\* partial sum of the three products and the sum with the rounding constant
\* 2^11 - 1 is within the i32 range: no lane addition wraps.
C19_NoI32Overflow ==
    KernelStep("sse") =>
        \A i \in 1..3 :
            /\ kret.v0[i] \in MinI32..MaxI32
            /\ kret.v1[i] \in MinI32..MaxI32
            /\ kret.v2[i] \in MinI32..MaxI32
            /\ NoWrap32(kret.v0[i], ROUNDING_Q4_12)
            /\ NoWrap32(kret.v1[i], kret.v2[i])
            /\ NoWrap32(kret.acc0[i], kret.acc1[i])
            /\ NoWrap32(kret.v0[i], kret.v1[i])
            /\ NoWrap32(kret.v0[i] + kret.v1[i], kret.v2[i])

\* The pixel with the largest sum the domain has: all three linear values
\* 2^12 against a row of three entries 2^15 - 1.
C19_Witness ==
    /\ KernelStep("sse")
    /\ kcall.r = Q12 /\ kcall.g = Q12 /\ kcall.b = Q12
    /\ \E i \in 1..3 :
          /\ kcall.m[i] = <<MaxI32 \div 65536, MaxI32 \div 65536, MaxI32 \div 65536>>
          /\ kret.v[i] = 3 * Q12 * (MaxI32 \div 65536) + ROUNDING_Q4_12
    /\ \E i \in 1..3 :
          /\ kcall.m[i] = <<MinI32 \div 65536, MinI32 \div 65536, MinI32 \div 65536>>
          /\ kret.v[i] = 3 * Q12 * (MinI32 \div 65536) + ROUNDING_Q4_12

\* K * (G - 1) is a multiple of 255: K sits on a grid plane.
OnGridPlane == (kcall.k * (kcall.GRID_SIZE - 1)) % 255 = 0

\* C13 as stated: K = 0 gives w = w_n = 0 and t = 0, K = 255 gives
\* w = w_n = G - 1 and t = 0, and w_n = w and t = 0 whenever K * (G - 1) is
\* divisible by 255.
C13_KAxisAsStated ==
    KernelStep("weights") =>
        /\ kcall.k = 0 => kret.w = 0 /\ kret.w_n = 0 /\ kret.t.num = 0
        /\ kcall.k = 255 =>
              /\ kret.w = kcall.GRID_SIZE - 1
              /\ kret.w_n = kcall.GRID_SIZE - 1
              /\ kret.t.num = 0
        /\ OnGridPlane => kret.w_n = kret.w /\ kret.t.num = 0

\* C13: CLUT 4->3 kernels, every grid size G: K = 0 gives w = w_n = 0 and
\* t = 0; K = 255 gives w = w_n = G - 1 and t = 0; whenever K * (G - 1) is
\* divisible by 255, w_n = w, so both table slices start at the same cube,
\* and t is 0 or a rounding residue of the f32 product with
\* 0 <= t <= 2^-17.
C13_KAxis ==
    KernelStep("weights") =>
        /\ kcall.k = 0 => kret.w = 0 /\ kret.w_n = 0 /\ kret.t.num = 0
        /\ kcall.k = 255 =>
              /\ kret.w = kcall.GRID_SIZE - 1
              /\ kret.w_n = kcall.GRID_SIZE - 1
              /\ kret.t.num = 0
        /\ OnGridPlane =>
              /\ kret.w_n = kret.w
              /\ kret.table1 = kret.table2
              /\ kret.t.num >= 0
              /\ kret.t.num > 0 => (kret.t.e >= 17 /\ kret.t.num <= Pow2(kret.t.e - 17))

\* G = 26, K = 153: K * 25 = 15 * 255, both slices are cube 15, and the f32
\* product (153 / 255) * 25 is 15 + 2^-20.
C13_Witness ==
    /\ KernelStep("weights")
    /\ kcall.GRID_SIZE = 26
    /\ kcall.k = 153
    /\ kret.w = 15
    /\ kret.w_n = 15
    /\ kret.t = [num |-> 1, e |-> 20]

\* C12: CLUT executors with an integer storage type: every colour sample
\* stored lies in [0, 2^BIT_DEPTH - 1], for every interpolated value (below
\* 0, above 1, NaN and infinite ones included), in the scalar 3->4, the AVX
\* 4->3 and the NEON 4->3 kernels.
C12_ClutStoreInRange ==
    KernelStep("store") => kret.sample \in 0..(Pow2(kcall.BIT_DEPTH) - 1)

\* The NEON kernel of a 10-bit executor storing 0 for a negative blend; the
\* same inputs with the cubes exchanged blend above 1 and store 1023.
C12_Witness ==
    /\ KernelStep("store")
    /\ kcall.kernel = "TransformLut4XyzToRgbNeon"
    /\ kcall.BIT_DEPTH = 10
    /\ kret.v[1] = "num"
    /\ kret.v[2] < 0
    /\ kret.sample = 0
    /\ NeonLut4x3Store(kcall.b0, kcall.a0, kcall.t, kcall.T, kcall.BIT_DEPTH).sample
         = Pow2(10) - 1
    /\ CLess(ValueScale(1), NeonLut4x3Store(kcall.b0, kcall.a0, kcall.t, kcall.T, kcall.BIT_DEPTH).v)

\* C14: every double-table interpolant (TetrahedralAvxFmaDouble,
\* PyramidAvxFmaDouble, PrismaticAvxFmaDouble) returns, for all inputs and
\* all cube contents, the pair (single(table0), single(table1)) of the
\* corresponding single-table interpolant.
C14_DoubleIsTwoSingles ==
    KernelStep("interp") => kret.double = <<kret.single0, kret.single1>>

\* The same statement for the tetrahedral and the pyramidal interpolant
\* alone, and the first half of the pair for all three.
C14_ExceptPrismSecond ==
    KernelStep("interp") =>
        /\ kret.double[1] = kret.single0
        /\ kcall.method # "Prism" => kret.double[2] = kret.single1

(***************************************************************************)
(* Properties of two calls on one executor (specification SpecShared)      *)
(***************************************************************************)
\* C16: two transform calls on the same executor, running at the same time
\* on destinations of their own and interleaved in any way at the loads and
\* stores of their strips, each leave in its destination and return exactly
\* what the same call leaves and returns when it runs alone; the executor
\* and the source stay as they were passed, and the scratch a call stores
\* from holds what that call loaded.
C16_ConcurrentAsSequential ==
    scall # None =>
        /\ shared_ex = scall.e
        /\ shared_src = SharedSrc(scall)
        /\ \A t \in Threads :
            /\ tpc[t] = "done" =>
                LET alone == TransformAlone(scall.e, SharedSrc(scall), SharedDst(scall, t))
                IN  tret[t] = alone.ret /\ tdst[t] = alone.dst
            /\ tpc[t] = "store" =>
                tws[t] = ScratchAlone(scall.e, SharedSrc(scall), SharedDst(scall, t), tchunk[t])
            /\ (tpc[t] = "load" /\ tchunk[t] = 0) => tws[t] = ZeroScratch
\* Both calls returned Ok after two chunks each, one of them having loaded a
\* strip between the other's load and store, and wrote different outputs for
\* the two chunks.
C16_Witness ==
    /\ scall # None
    /\ overlap
    /\ \A t \in Threads :
        /\ tpc[t] = "done" /\ tret[t] = Ok /\ tchunk[t] = 2
        /\ tdst[t] # SharedDst(scall, t)
        /\ \E j \in 1..12 : tdst[t][j] # tdst[t][STRIP + j]
    /\ tdst[1] = tdst[2]

(***************************************************************************)
(* Properties of the identity transform (specification SpecKernel)         *)
(***************************************************************************)
\* C20: the executor built by P.create_transform(P) maps every sample of
\* every buffer to a value that differs from it by at most 1 LSB at the
\* output bit depth.
C20_IdentityWithin1LSB ==
    KernelStep("identity") => Abs(kret.out - kcall.sample) <= 1
\* The identity transform is exact for a linear curve, stays within 1 LSB at
\* 8 bits for the exponent 2, and maps to 0 every sample whose linear value
\* rounds to index 0 of the gamma table.
C20_IdentityAsBuilt ==
    KernelStep("identity") =>
        /\ kcall.gamma = 1 => kret.out = kcall.sample
        /\ (kcall.gamma = 2 /\ kcall.BIT_DEPTH = 8) => Abs(kret.out - kcall.sample) <= 1
        /\ kret.index = 0 => kret.out = 0

(***************************************************************************)
(* Properties of Layout (specification SpecFactory)                        *)
(***************************************************************************)
RgbFamily == {"Rgb8", "Rgba8", "Rgb16", "Rgba16"}
\* The indices the accessors of layout l define.
DefinedIndices(l) ==
    {i \in {r_i(l), g_i(l), b_i(l), a_i(l)} : i # UnimplementedIndex}
\* The number of accessors of layout l that define an index.
DefinedCount(l) ==
    Cardinality({acc \in {"r", "g", "b", "a"} :
        (CASE acc = "r" -> r_i(l) [] acc = "g" -> g_i(l) [] acc = "b" -> b_i(l)
           [] OTHER -> a_i(l)) # UnimplementedIndex})

\* C28: the accessors of the layout of every factory call describe one
\* pixel: channels is 3, 4, 1, 2 for Rgb, Rgba, Gray, GrayAlpha; a_i is
\* defined exactly with has_alpha and is channels - 1; r_i, g_i, b_i are
\* defined exactly for the Rgb and Rgba layouts; the defined indices are
\* pairwise distinct and below channels; is_16_bit holds exactly for the
\* four 16-bit layouts.
C28_LayoutAccessors ==
    fcall # None =>
        LET l == fcall.layout
        IN  /\ l \in {"Rgb8", "Rgb16"} => channels(l) = 3
            /\ l \in {"Rgba8", "Rgba16"} => channels(l) = 4
            /\ l \in {"Gray8", "Gray16"} => channels(l) = 1
            /\ l \in {"GrayAlpha8", "GrayAlpha16"} => channels(l) = 2
            /\ (a_i(l) # UnimplementedIndex) <=> has_alpha(l)
            /\ has_alpha(l) => a_i(l) = channels(l) - 1
            /\ \A i \in {r_i(l), g_i(l), b_i(l)} :
                (i # UnimplementedIndex) <=> (l \in RgbFamily)
            /\ Cardinality(DefinedIndices(l)) = DefinedCount(l)
            /\ \A i \in DefinedIndices(l) : 0 <= i /\ i < channels(l)
            /\ is_16_bit(l) <=> l \in {"Rgb16", "Rgba16", "Gray16", "GrayAlpha16"}
\* A factory call with a two-channel layout, whose only index is alpha at 1.
C28_Witness ==
    /\ fcall # None
    /\ fcall.layout = "GrayAlpha16"
    /\ DefinedIndices(fcall.layout) = {1}
    /\ channels(fcall.layout) = 2

(***************************************************************************)
(* Properties of the stage pipeline (specification Spec)                   *)
(***************************************************************************)
ClippingIntents == {"Perceptual", "RelativeColorimetric", "Saturation"}
StageNames(stages) == [i \in 1..Len(stages) |-> stages[i].stage]
\* The linearized colour triple of source pixel px.
RgbLinearPx(e, px) ==
    LET cn == LayoutFrom(e.cfg.LAYOUT)
    IN  <<F(r_linear(e, px[r_i(cn) + 1])), F(g_linear(e, px[g_i(cn) + 1])),
          F(b_linear(e, px[b_i(cn) + 1]))>>
\* The gamma lookups of the colour channel k at the staged triple st.
RgbGammaAt(e, st, k) ==
    LET cn == LayoutFrom(e.cfg.LAYOUT)
    IN  CASE k = r_i(cn) -> r_gamma(e, AsUsize(st[1]))
          [] k = g_i(cn) -> g_gamma(e, AsUsize(st[2]))
          [] k = b_i(cn) -> b_gamma(e, AsUsize(st[3]))
IsColour(e, k) == k < 3

\* C22: RGB matrix executor with an adaptation matrix: every strip runs
\* MatrixStage then GamutClipScaleStage if and only if allow_chroma_clipping
\* is set and the intent is Perceptual, RelativeColorimetric or Saturation,
\* and MatrixClipScaleStage alone otherwise (always so with
\* AbsoluteColorimetric); the scale is GAMMA_LUT - 1 in both, and every
\* colour sample of dst is the gamma entry at the result of that pipeline.
C22_PipelineChoice ==
    (Returned(RgbExec) /\ ret = Ok /\ ex.cfg.adaptation_matrix # NoMatrix) =>
        LET M == ex.cfg.adaptation_matrix
            s == ex.cfg.GAMMA_LUT - 1
            clip == /\ ex.cfg.options.allow_chroma_clipping
                    /\ ex.cfg.rendering_intent \in ClippingIntents
            stages == RgbPipeline(ex)
            staged(px) ==
                IF clip THEN GamutClipScaleStagePx(s, MatrixStagePx(M, RgbLinearPx(ex, px)))
                ELSE MatrixClipScaleStagePx(M, s, RgbLinearPx(ex, px))
        IN  /\ clip <=> StageNames(stages) = <<"MatrixStage", "GamutClipScaleStage">>
            /\ ~clip <=> StageNames(stages) = <<"MatrixClipScaleStage">>
            /\ ex.cfg.rendering_intent = "AbsoluteColorimetric" =>
                \A i \in 1..Len(stages) : stages[i].stage # "GamutClipScaleStage"
            /\ stages[Len(stages)].scale = s
            /\ \A j \in 1..Len(dst) :
                IsColour(ex, (j - 1) % DstChannels(ex)) =>
                    dst[j] = RgbGammaAt(ex, staged(SrcPixel((j - 1) \div DstChannels(ex))),
                                        (j - 1) % DstChannels(ex))
\* An AbsoluteColorimetric call with allow_chroma_clipping set returned Ok
\* on a pixel that the matrix takes out of the unit cube, where the two
\* pipelines give different gamma indices.
C22_Witness ==
    /\ Returned(RgbExec) /\ ret = Ok /\ Len(dst) >= 3
    /\ ex.cfg.adaptation_matrix # NoMatrix
    /\ ex.cfg.rendering_intent = "AbsoluteColorimetric"
    /\ ex.cfg.options.allow_chroma_clipping
    /\ \E p \in 0..((Len(src) \div SrcChannels(ex)) - 1) :
        GamutClipScaleStagePx(ex.cfg.GAMMA_LUT - 1,
            MatrixStagePx(ex.cfg.adaptation_matrix, RgbLinearPx(ex, SrcPixel(p))))
        # MatrixClipScaleStagePx(ex.cfg.adaptation_matrix, ex.cfg.GAMMA_LUT - 1,
                                 RgbLinearPx(ex, SrcPixel(p)))

\* C27: RGB matrix executor without an adaptation matrix: the value that
\* indexes r_gamma / g_gamma / b_gamma is still the linear value scaled to
\* [0, GAMMA_LUT - 1], so every colour sample of dst is
\* gamma[round(linear(input) * (GAMMA_LUT - 1))].
C27_GammaIndexScaled ==
    (Returned(RgbExec) /\ ret = Ok /\ ex.cfg.adaptation_matrix = NoMatrix) =>
        \A j \in 1..Len(dst) :
            IsColour(ex, (j - 1) % DstChannels(ex)) =>
                LET lin == RgbLinearPx(ex, SrcPixel((j - 1) \div DstChannels(ex)))
                    scaled == [c \in 1..3 |->
                                 F(FDen * RoundScaled(lin[c], ex.cfg.GAMMA_LUT - 1))]
                IN  dst[j] = RgbGammaAt(ex, scaled, (j - 1) % DstChannels(ex))
\* Without an adaptation matrix the index is the linear value itself cast to
\* usize, 0 or 1: every colour sample of dst is gamma[0] or gamma[1].
C27_UnscaledAsBuilt ==
    (Returned(RgbExec) /\ ret = Ok /\ ex.cfg.adaptation_matrix = NoMatrix) =>
        \A j \in 1..Len(dst) :
            IsColour(ex, (j - 1) % DstChannels(ex)) =>
                LET k == (j - 1) % DstChannels(ex)
                IN  dst[j] \in {RgbGammaAt(ex, <<F(0), F(0), F(0)>>, k),
                                RgbGammaAt(ex, <<F(FDen), F(FDen), F(FDen)>>, k)}

(***************************************************************************)
(* Properties of the Gray path                                             *)
(***************************************************************************)
\* C29: the executor the factory builds for a Gray source and an RGB
\* destination reads one sample per source pixel and writes
\* channels(layout) samples per destination pixel: it refuses with a lane
\* error exactly the buffers with dst.len() # src.len() * channels(layout),
\* and on the others every sample of dst is stored.
C29_GrayAcceptsAndWrites ==
    Returned(GrayExec) =>
        /\ ret \notin LaneErrors <=> Len(dst) = Len(src) * DstChannels(ex)
        /\ ret = Ok => \A j \in 1..Len(dst) : wcount[j] >= 1
\* The Gray executor refuses exactly the buffers with
\* dst.len() # src.len() * channels(layout), and returns Ok on the others
\* when the samples are of its bit depth.
C29_GrayAccepts ==
    Returned(GrayExec) =>
        /\ ret \notin LaneErrors <=> Len(dst) = Len(src) * DstChannels(ex)
        /\ (Len(dst) = Len(src) * DstChannels(ex) /\ InDepth) => ret = Ok
\* For a Gray source and an RGB destination with PCS = XYZ and buildable
\* tables, every entry point returns the Gray executor of the layout for
\* each of the four layouts of its width.
C29_GrayFactory ==
    (Called /\ IsGrayXyzPair(fcall.src, fcall.dst)
        /\ fcall.src.trc_ok /\ fcall.dst.trc_ok
        /\ (is_16_bit(fcall.layout) <=> ~Entry8)) =>
            /\ fret.kind = "Ok"
            /\ fret.exec = GrayExec
            /\ LayoutFrom(fret.LAYOUT) = fcall.layout

(***************************************************************************)
(* Properties of the public API (specification SpecApi)                    *)
(***************************************************************************)
\* The indices the executor in `ex` asks the index accessors for.
AccessorCalls ==
    IF ex.cfg.exec = GrayExec THEN GrayAccessorCalls(ex) ELSE RgbAccessorCalls(ex)

\* C30: whatever is given to a factory entry point, and whatever buffers to
\* the executor it returned: the factory never reaches a
\* `_ => unimplemented!()` arm, the executor never calls r_i, g_i, b_i or
\* a_i where the accessor is unimplemented, never decodes a layout byte
\* above 7, and the assertion src.len() <= 672 never fails.
C30_NoUnimplementedNoAssert ==
    /\ fret # Panic(Unimplemented)
    /\ ex # None =>
        /\ ex.cfg.LAYOUT \in 0..7
        /\ LayoutFrom(ex.cfg.LAYOUT) # Unimplemented
        /\ UnimplementedIndex \notin AccessorCalls
        /\ ret # AssertFailed
\* The 8-bit entry point returned an RGB matrix executor with an adaptation
\* matrix, and transform returned Ok on it after a strip of exactly 672
\* samples and a remainder.
C30_Witness ==
    /\ fcall # None /\ fcall.entry = "8bit" /\ fret.kind = "Ok"
    /\ Returned(RgbExec) /\ ex.cfg = fret
    /\ ex.cfg.adaptation_matrix # NoMatrix
    /\ strip = 1 /\ Len(src) > STRIP
    /\ ret = Ok
    /\ AccessorCalls = {0, 1, 2, 3}

(***************************************************************************)
(* Properties of the grid corners (specification SpecKernel)               *)
(***************************************************************************)
\* d < n and |d| < n for an f32 d and an integer |n| < 2^24: the sign of a
\* rounded difference is the sign of the difference.
F32Below(d, n) == Sub(d, F32Int(n)).m < 0
F32Within(d, n) == F32Below(d, n) /\ Add(d, F32Int(n)).m > 0

\* C23: for every 8-bit coordinate c and every grid size G >= 2 with
\* S = G - 1, the lower corner x is floor(c * S / 255) and the upper corner
\* x_n is ceil(c * S / 255); 0 <= x <= x_n <= S, x_n - x is 0 or 1, x_n = x
\* exactly when 255 divides c * S (so c = 255 gives x = x_n = S), and the
\* offset c * S / 255 - x lies in [0, 1); the f32 weight rx the code
\* computes for it lies in [0, 1) too and is within 1 / 255 of it.
C23_GridCorners ==
    KernelStep("corners") =>
        LET c == kcall.c
            S == kcall.GRID_SIZE - 1
            x == kret.x
            x_n == kret.x_n
            rx == kret.rx_f32
        IN  /\ x * LUT_SAMPLING <= c * S /\ c * S < (x + 1) * LUT_SAMPLING
            /\ (x_n - 1) * LUT_SAMPLING < c * S /\ c * S <= x_n * LUT_SAMPLING
            /\ 0 <= x /\ x <= x_n /\ x_n <= S
            /\ x_n - x \in {0, 1}
            /\ (x_n = x) <=> ((c * S) % LUT_SAMPLING = 0)
            /\ c = LUT_SAMPLING => (x = S /\ x_n = S)
            /\ 0 <= rx.m /\ F32Below(rx, 1)
            /\ F32Within(mm_fmadd_ps(rx, F32Int(LUT_SAMPLING),
                                     F32Int(x * LUT_SAMPLING - c * S)), 1)
\* The sample 254 on the largest grid: its corners are the last two grid
\* points and its f32 weight is positive.
C23_Witness ==
    /\ KernelStep("corners")
    /\ kcall.GRID_SIZE = MaxGrid /\ kcall.c = LUT_SAMPLING - 1
    /\ kret.x = MaxGrid - 2 /\ kret.x_n = MaxGrid - 1
    /\ kret.rx_f32.m > 0

(***************************************************************************)
(* Properties of the lattice fetches (specification SpecKernel)            *)
(***************************************************************************)
\* C24: in the CLUT 4->3 path with a LUT of exactly G^4 entries, for 8-bit
\* c, m, y, k: both table slices start at a multiple of G^3 that is at most
\* (G - 1) * G^3 and fits the i32 it is computed in, every fetch offset
\* x * G^2 + y * G + z inside a slice is in [0, G^3), so every absolute index
\* read is in [0, G^4); and the offset is injective: it determines x, y and
\* z, and on the grids 2 and 3 the G^3 lattice points have G^3 offsets.
C24_FetchInRange ==
    KernelStep("fetch") =>
        LET G == kcall.GRID_SIZE
            G3 == G * G * G
            starts == {kret.table1, kret.table2}
        IN  /\ \A t \in starts :
                  /\ 0 <= t /\ t <= (G - 1) * G3 /\ t <= MaxI32
                  /\ t % G3 = 0
            /\ Cardinality(kret.offsets) = Cardinality(kret.points)
            /\ \A p \in kret.points :
                  LET o == FetchOffset(G, p[1], p[2], p[3])
                  IN  /\ 0 <= o /\ o < G3
                      /\ <<o \div (G * G), (o \div G) % G, o % G>> = p
                      /\ \A t \in starts : 0 <= t + o /\ t + o < G3 * G
            /\ G \in InterpGrids =>
                  Cardinality({FetchOffset(G, x, y, z) :
                                  x \in 0..(G - 1), y \in 0..(G - 1), z \in 0..(G - 1)}) = G3
\* The pixel (254, 254, 254, 254) on the largest grid: the second slice is
\* the last cube and the last lattice point of it, the last entry of the
\* LUT, is among the eight fetched.
C24_Witness ==
    /\ KernelStep("fetch")
    /\ kcall.GRID_SIZE = MaxGrid /\ kcall.k = 254
    /\ kret.table2 = (MaxGrid - 1) * MaxGrid * MaxGrid * MaxGrid
    /\ kret.table1 < kret.table2
    /\ Cardinality(kret.offsets) = 8
    /\ MaxGrid * MaxGrid * MaxGrid - 1 \in kret.offsets

(***************************************************************************)
(* Properties of the tetrahedral interpolant (specification SpecKernel)    *)
(***************************************************************************)
\* The orders in which a monotone path raises the three axes.
AxisOrders == {o \in [1..3 -> 1..3] : \A i \in 1..3 : \E j \in 1..3 : o[j] = i}
\* The vertex of the path of order o after n steps from lo towards hi.
PathVertex(lo, hi, o, n) ==
    [a \in 1..3 |-> IF \E i \in 1..n : o[i] = a THEN hi[a] ELSE lo[a]]
\* The corners of the pixel of the last call.
CallLo == <<GridLo(kcall.in_r, kcall.GRID_SIZE), GridLo(kcall.in_g, kcall.GRID_SIZE),
            GridLo(kcall.in_b, kcall.GRID_SIZE)>>
CallHi == <<GridHi(kcall.in_r, kcall.GRID_SIZE), GridHi(kcall.in_g, kcall.GRID_SIZE),
            GridHi(kcall.in_b, kcall.GRID_SIZE)>>
Lattice(cube, p) == Fetch(cube, kcall.GRID_SIZE, p[1], p[2], p[3])
\* The lattice values at the four vertices of the path of order o.
PathValues(cube, o) ==
    [i \in 1..4 |-> Lattice(cube, PathVertex(CallLo, CallHi, o, i - 1))]

\* An f32 that holds an integer, and that integer.
F32IsInt(x) == x.e \in 0..30 /\ x.m % Pow2(x.e) = 0
F32IntValue(x) == x.m \div Pow2(x.e)
\* The f32 x holds the integer n.
F32Holds(x, n) == F32IsInt(x) /\ F32IntValue(x) = n

\* The least, the greatest and the largest magnitude of four values.
Least(v) == Min(Min(v[1], v[2]), Min(v[3], v[4]))
Greatest(v) == Max(Max(v[1], v[2]), Max(v[3], v[4]))
Magnitude(v) == Max(Abs(Least(v)), Abs(Greatest(v)))

\* The deltas d of one table are those of the monotone path of axis order o,
\* an order in which the f32 weights of the code descend: each delta is the
\* lattice difference along the path's edge of its own axis, and the weights
\* 1 - w1, w1 - w2, w2 - w3, w3 of the path's four vertices, which sum to 1,
\* are non-negative as 1 > w1 >= w2 >= w3 >= 0.
TetrahedralPath(cube, d, o) ==
    LET w == <<d.rx, d.ry, d.rz>>
        deltas == <<d.c1, d.c2, d.c3>>
        vals == PathValues(cube, o)
    IN  /\ F32Below(w[o[1]], 1)
        /\ F32Geq(w[o[1]], w[o[2]]) /\ F32Geq(w[o[2]], w[o[3]])
        /\ w[o[3]].m >= 0
        /\ \A i \in 1..3 : F32Holds(deltas[o[i]], vals[i + 1] - vals[i])

\* The f32 out is not more than 2^-20 times the largest magnitude of the
\* four values v below the least and above the greatest of them.
Excursion == Pow2(20)
NearRange(out, v) ==
    /\ mm_fmadd_ps(out, F32Int(Excursion),
                   F32Int(Magnitude(v) - Least(v) * Excursion)).m >= 0
    /\ mm_fmadd_ps(out, F32Int(Excursion),
                   F32Int(0 - Magnitude(v) - Greatest(v) * Excursion)).m <= 0

\* The deltas d and the result out of one table: c0 is the near corner, c0
\* plus the three deltas is the far corner, the deltas are those of a
\* monotone path whose vertex weights are non-negative, and out is in the
\* range of the path's four vertices up to 2^-20 of their largest magnitude.
TetrahedralConvex(cube, d, out) ==
    /\ F32Holds(d.c0, Lattice(cube, CallLo))
    /\ F32IsInt(d.c1) /\ F32IsInt(d.c2) /\ F32IsInt(d.c3)
    /\ F32IntValue(d.c0) + F32IntValue(d.c1) + F32IntValue(d.c2) + F32IntValue(d.c3)
         = Lattice(cube, CallHi)
    /\ \E o \in AxisOrders :
        /\ TetrahedralPath(cube, d, o)
        /\ NearRange(out, PathValues(cube, o))

\* out is not below the least and not above the greatest of the values at
\* the four vertices of the path of the deltas d.
TetrahedralInRange(cube, d, out) ==
    \E o \in AxisOrders :
        /\ TetrahedralPath(cube, d, o)
        /\ ~F32Below(out, Least(PathValues(cube, o)))
        /\ Sub(out, F32Int(Greatest(PathValues(cube, o)))).m <= 0

\* C25: tetrahedral interpolation is a convex combination in each of its six
\* branches: the deltas c1, c2, c3 are lattice differences along the x, y and
\* z edges of one monotone path from (x, y, z) to (x_n, y_n, z_n), so
\* c0 + c1 + c2 + c3 is the lattice value at (x_n, y_n, z_n); the weights of
\* the four path vertices are non-negative under the branch's ordering of
\* the f32 weights (rx, ry, rz) and sum to 1; the output, the sum that three
\* fused multiply-adds round, lies in the range of the four vertex values up
\* to 2^-20 of their largest magnitude; and the double-table variant takes
\* the branch the single-table variant takes and returns its two results.
C25_TetrahedralConvex ==
    KernelStep("tetra") =>
        /\ TetrahedralConvex(kcall.table0, kret.single0, kret.out0)
        /\ TetrahedralConvex(kcall.table1, kret.single1, kret.out1)
        /\ kret.double.branch = kret.single0.branch
        /\ kret.double.branch = kret.single1.branch
        /\ kret.double.c0 = <<kret.single0.c0, kret.single1.c0>>
        /\ kret.double.c1 = <<kret.single0.c1, kret.single1.c1>>
        /\ kret.double.c2 = <<kret.single0.c2, kret.single1.c2>>
        /\ kret.double.c3 = <<kret.single0.c3, kret.single1.c3>>
        /\ kret.outd = <<kret.out0, kret.out1>>
\* C25 as the specification states it: every output lies between the least
\* and the greatest of the values at the four vertices of its path.
C25_OutputInRange ==
    KernelStep("tetra") =>
        /\ TetrahedralInRange(kcall.table0, kret.single0, kret.out0)
        /\ TetrahedralInRange(kcall.table1, kret.single1, kret.out1)
\* The pixel (128, 200, 64) on the grid 3, where ry > rz > rx > 0: both
\* variants take the fifth branch, the three deltas of the first table are
\* non-zero and its output is strictly inside the range of the path's
\* vertices.
C25_Witness ==
    /\ KernelStep("tetra")
    /\ kcall.GRID_SIZE = 3
    /\ <<kcall.in_r, kcall.in_g, kcall.in_b>> = <<128, 200, 64>>
    /\ F32Gt(kret.single0.ry, kret.single0.rz) /\ F32Gt(kret.single0.rz, kret.single0.rx)
    /\ kret.single0.rx.m > 0
    /\ kret.single0.branch = 5 /\ kret.double.branch = 5
    /\ kret.single0.c1.m # 0 /\ kret.single0.c2.m # 0 /\ kret.single0.c3.m # 0
    /\ kcall.table0 # kcall.table1
    /\ \E p \in CornerPoints(3, 128, 200, 64), q \in CornerPoints(3, 128, 200, 64) :
          /\ Sub(kret.out0, F32Int(Lattice(kcall.table0, p))).m > 0
          /\ Sub(kret.out0, F32Int(Lattice(kcall.table0, q))).m < 0

(***************************************************************************)
(* Linear precision of the interpolants (specification SpecKernel)         *)
(***************************************************************************)
\* Exact values are numerators over WDen = 255^2.
WDen == LUT_SAMPLING * LUT_SAMPLING
\* The offsets u - x, v - y, w - z of the pixel of the last call, for
\* u = cR*S/255, v = cG*S/255, w = cB*S/255, as numerators over 255.
CallOffsets ==
    LET S == kcall.GRID_SIZE - 1
    IN  <<kcall.in_r * S - CallLo[1] * LUT_SAMPLING,
          kcall.in_g * S - CallLo[2] * LUT_SAMPLING,
          kcall.in_b * S - CallLo[3] * LUT_SAMPLING>>
\* a*u + b*v + c*w + d for the pixel and the cube of the last call, as a
\* numerator over WDen.
AffineAt ==
    LET S == kcall.GRID_SIZE - 1
        co == kcall.co
    IN  LUT_SAMPLING * S * (co[1] * kcall.in_r + co[2] * kcall.in_g + co[3] * kcall.in_b)
            + co[4] * WDen
\* The largest magnitude of the lattice values of the cube of the last call.
AffineMagnitude ==
    LET cube == AffineCube(kcall.GRID_SIZE, kcall.co)
    IN  CHOOSE n \in {Abs(cube[i]) : i \in DOMAIN cube} :
            \A i \in DOMAIN cube : Abs(cube[i]) <= n
\* c0 + c1 * w1 + c2 * w2 + c3 * w3 in exact arithmetic for the integer
\* deltas of d and weights times 255, as a numerator over WDen.
FirstOrder(d, w1, w2, w3) ==
    F32IntValue(d.c0) * WDen
        + LUT_SAMPLING * (F32IntValue(d.c1) * w1 + F32IntValue(d.c2) * w2
                            + F32IntValue(d.c3) * w3)
\* The deltas c0..c3 of d hold integers.
IntegerDeltas(d) == F32IsInt(d.c0) /\ F32IsInt(d.c1) /\ F32IsInt(d.c2) /\ F32IsInt(d.c3)
\* The f32 out is within AffineMagnitude / 255^2 of AffineAt / 255^2:
\* out * 255^2 - AffineAt, rounded once, is zero or of magnitude below it.
NearAffine(out) ==
    \/ mm_fmadd_ps(out, F32Int(WDen), F32Int(0 - AffineAt)).m = 0
    \/ F32Within(mm_fmadd_ps(out, F32Int(WDen), F32Int(0 - AffineAt)), AffineMagnitude)

\* C26: on a cube whose lattice values are the affine function
\* a*i + b*j + c*k + d of the grid indices, the tetrahedral, the pyramidal
\* and the prismatic interpolant return, in every branch and in exact
\* arithmetic, a*u + b*v + c*w + d at u = cR*S/255, v = cG*S/255,
\* w = cB*S/255: every cross-term delta the code computes is zero and its
\* first-order deltas, with the offsets u - x, v - y, w - z of their own
\* axes, sum to that value, so the three methods agree on affine tables; the
\* f32 each of them returns, from its f32 weights and fused multiply-adds,
\* is within L / 255^2 of it, L being the largest magnitude of a lattice
\* value.
C26_LinearPrecision ==
    KernelStep("affine") =>
        LET cube == AffineCube(kcall.GRID_SIZE, kcall.co)
            w == CallOffsets
            t == TetrahedralDeltas(cube, kcall.GRID_SIZE, kcall.in_r, kcall.in_g, kcall.in_b)
            p == PyramidalDeltas(cube, kcall.GRID_SIZE, kcall.in_r, kcall.in_g, kcall.in_b)
            q == PrismaticDeltas(cube, kcall.GRID_SIZE, kcall.in_r, kcall.in_g, kcall.in_b)
        IN  /\ IntegerDeltas(t) /\ FirstOrder(t, w[1], w[2], w[3]) = AffineAt
            /\ IntegerDeltas(p) /\ FirstOrder(p, w[3], w[1], w[2]) = AffineAt
            /\ p.c4.m = 0
            /\ IntegerDeltas(q) /\ FirstOrder(q, w[3], w[1], w[2]) = AffineAt
            /\ q.c4.m = 0 /\ q.c5.m = 0
            /\ NearAffine(kret.tetrahedral)
            /\ NearAffine(kret.pyramid)
            /\ NearAffine(kret.prism)
\* The pixel (64, 200, 128) on the grid 5 and the cube -3*i + 5*j + 7*k + 10:
\* three different non-zero offsets, the exact value 2388330 / 255^2, and
\* from all three interpolants the f32 nearest to it, 9628395 / 2^18.
C26_Witness ==
    /\ KernelStep("affine")
    /\ kcall.GRID_SIZE = 5
    /\ kcall.co = <<0 - 3, 5, 7, 10>>
    /\ <<kcall.in_r, kcall.in_g, kcall.in_b>> = <<64, 200, 128>>
    /\ CallOffsets = <<1, 35, 2>>
    /\ AffineAt = 2388330
    /\ kret.tetrahedral = [m |-> 9628395, e |-> 18]
    /\ kret.pyramid = [m |-> 9628395, e |-> 18]
    /\ kret.prism = [m |-> 9628395, e |-> 18]

====
